---- MODULE Spec2Model ----
(***************************************************************************)
(* TestAssist: the run registry (app/core/store.py), the HTTP handlers     *)
(* that drive it (app/api/routes.py), the schema validator                 *)
(* (app/models/schemas.py) and the single-shot pipeline                    *)
(* SimpleTestCaseWorkflow (app/services/simple_workflow.py).               *)
(*                                                                         *)
(* The server is one asyncio event loop: a coroutine runs without          *)
(* interruption until it awaits something that really suspends (an LLM     *)
(* call, an aiofiles read).  `running` names the coroutine that holds the  *)
(* loop between two such points, so every registry write is a step of its  *)
(* own while other coroutines interleave only at the awaits.               *)
(***************************************************************************)
EXTENDS Integers, Sequences, FiniteSets, TLC

VARIABLES runs, usedIds, artifacts, bg, ingest, execs, running, clock, chunker

vars == <<runs, usedIds, artifacts, bg, ingest, execs, running, clock, chunker>>

(***************************************************************************)
(* Bounds of the model.                                                    *)
(***************************************************************************)
MaxChunks == 2
MaxCands == 2
\* The readings of datetime.utcnow() are 0..MaxClock.
MaxClock == 2
\* The test cases of a traced list, and the requirement identifiers of one case.
MaxTraceCases == 2
MaxReqIds == 2

\* The longest text given to the chunker, and its largest chunk_size and overlap.
MaxTextLen == 4
MaxChunkSize == 3
MaxOverlap == 3

\* The identifiers uuid4 may return, and the request slots of the server.
RunIds == {1, 2}
Execs == {1, 2}

\* Optional[T]: None is the empty sequence and a present value v is <<v>>, so that
\* a field can be compared with None whatever its type.
None == <<>>
Some(v) == <<v>>

(***************************************************************************)
(* Text.  A Python str is a sequence of characters, so that startswith,    *)
(* strip and the substring test are computed, not assumed.                 *)
(***************************************************************************)
Whitespace == {" ", "\t", "\n"}

RECURSIVE lstrip(_)
lstrip(s) == IF s = <<>> THEN s
             ELSE IF Head(s) \in Whitespace THEN lstrip(Tail(s)) ELSE s

RECURSIVE rstrip(_)
rstrip(s) == IF s = <<>> THEN s
             ELSE IF s[Len(s)] \in Whitespace THEN rstrip(SubSeq(s, 1, Len(s) - 1)) ELSE s

strip(s) == rstrip(lstrip(s))

startswith(s, prefix) ==
    /\ Len(s) >= Len(prefix)
    /\ SubSeq(s, 1, Len(prefix)) = prefix

\* Python's `sub in s` on two strings.
contains(s, sub) ==
    \E k \in 0..(Len(s) - Len(sub)) : SubSeq(s, k + 1, k + Len(sub)) = sub

Digits == {"0", "1", "2", "3", "4", "5", "6", "7", "8", "9"}

(***************************************************************************)
(* app/services/file_reader.py: TextChunker.  Positions are Python's: the  *)
(* character at index i of a text is text[i + 1].                          *)
(***************************************************************************)
Max(a, b) == IF a >= b THEN a ELSE b
Min(a, b) == IF a <= b THEN a ELSE b

\* text[a:b] for 0 <= a.
Slice(text, a, b) == SubSeq(text, a + 1, Min(b, Len(text)))

\* text.rfind(sub, a, b): the highest index in a..b-len(sub) at which sub occurs,
\* or -1.
rfind(text, sub, a, b) ==
    LET to == Min(b, Len(text))
        at == {i \in a..(to - Len(sub)) : SubSeq(text, i + 1, i + Len(sub)) = sub}
    IN IF at = {} THEN -1 ELSE CHOOSE i \in at : \A j \in at : j <= i

\* chunk_text, line 144: "Look for sentence endings within the last 200 characters".
SentenceWindow == 200

\* chunk_text, lines 141-153: the end of the chunk that starts at start, moved
\* back to a sentence end or else to a paragraph break when the text goes on.
ChunkEnd(text, chunk_size, start) ==
    LET end == start + chunk_size
        search_start == Max(start + chunk_size - SentenceWindow, start)
        sentence_end == rfind(text, <<".">>, search_start, end)
        para_end == rfind(text, <<"\n", "\n">>, search_start, end)
    IN IF end < Len(text)
       THEN IF sentence_end > search_start THEN sentence_end + 1
            ELSE IF para_end > search_start THEN para_end + 2
            ELSE end
       ELSE end

\* The chunker when chunk_text is not being called.
IdleChunker ==
    [pc |-> "idle", text |-> <<>>, chunk_size |-> 1, overlap |-> 0, start |-> 0,
     chunks |-> <<>>]

TCPrefix == <<"T", "C", "-">>

\* re.fullmatch(r'TC-\d+', s): the pattern the data model states for an identifier.
MatchesTCDigits(s) ==
    /\ startswith(s, TCPrefix)
    /\ Len(s) > Len(TCPrefix)
    /\ \A k \in (Len(TCPrefix) + 1)..Len(s) : s[k] \in Digits

RawResponseKey == <<"r", "a", "w", "_", "r", "e", "s", "p", "o", "n", "s", "e">>

(***************************************************************************)
(* app/models/schemas.py                                                   *)
(***************************************************************************)
Priority == {"High", "Medium", "Low"}

TestCaseType == {"Functional", "Negative", "Edge", "Security", "Performance"}

RequiredFields == {"id", "title", "steps", "expected_result", "priority", "type"}

\* A variant of validate_id that accepts every identifier.
validate_id_any(v) == TRUE

\* @validator('id')
validate_id(v) == startswith(v, TCPrefix)

\* A variant of validate_steps that does not trim the steps.
validate_steps_untrimmed(v) == \A k \in 1..Len(v) : v[k] /= <<>>

\* @validator('steps')
validate_steps(v) == \A k \in 1..Len(v) : strip(v[k]) /= <<>>

\* The constraints of TestCase that the mapping `case` violates (the content of
\* pydantic's ValidationError); empty when TestCase(**case) succeeds.
FieldErrors(case) ==
    {<<f, "field required">> : f \in RequiredFields \ DOMAIN case}
    \cup (IF "id" \in DOMAIN case /\ ~validate_id(case.id)
          THEN {<<"id", "Test case ID must start with TC-">>} ELSE {})
    \cup (IF "title" \in DOMAIN case /\ Len(case.title) < 1
          THEN {<<"title", "min_length">>} ELSE {})
    \cup (IF "steps" \in DOMAIN case /\ Len(case.steps) < 1
          THEN {<<"steps", "min_items">>} ELSE {})
    \cup (IF "steps" \in DOMAIN case /\ Len(case.steps) >= 1 /\ ~validate_steps(case.steps)
          THEN {<<"steps", "All test steps must be non-empty">>} ELSE {})
    \cup (IF "expected_result" \in DOMAIN case /\ Len(case.expected_result) < 1
          THEN {<<"expected_result", "min_length">>} ELSE {})
    \cup (IF "priority" \in DOMAIN case /\ case.priority \notin Priority
          THEN {<<"priority", "not a valid enumeration member">>} ELSE {})
    \cup (IF "type" \in DOMAIN case /\ case.type \notin TestCaseType
          THEN {<<"type", "not a valid enumeration member">>} ELSE {})

\* TestCase(**case).dict(): the declared fields only, the optional lists defaulted.
TestCaseDict(case) ==
    [id |-> case.id,
     title |-> case.title,
     requirement_ids |-> IF "requirement_ids" \in DOMAIN case THEN case.requirement_ids ELSE <<>>,
     preconditions |-> IF "preconditions" \in DOMAIN case THEN case.preconditions ELSE <<>>,
     steps |-> case.steps,
     expected_result |-> case.expected_result,
     priority |-> case.priority,
     type |-> case.type]

(***************************************************************************)
(* JSON values, as json.loads returns them.                                *)
(***************************************************************************)
JObj(fields) == [kind |-> "object", fields |-> fields]
JArr(items) == [kind |-> "array", items |-> items]
JStr(s) == [kind |-> "string", text |-> s]
JNum == [kind |-> "number"]
JNull == [kind |-> "null"]

\* An LLM completion: text that json.loads accepts (and the value it yields) or not.
JsonText(v) == [json |-> TRUE, text |-> "", value |-> v]
PlainText(t) == [json |-> FALSE, text |-> t, value |-> JNull]

\* TestCase(**case) raises for a value that is no mapping (TypeError) and for a
\* mapping that violates the schema (ValidationError); both are Exceptions.
TestCaseErrors(case) ==
    IF case.kind /= "object" THEN {<<"TypeError", "argument after ** must be a mapping">>}
    ELSE FieldErrors(case.fields)

TestCaseAccepts(case) == TestCaseErrors(case) = {}

(***************************************************************************)
(* app/core/store.py                                                       *)
(***************************************************************************)
RunStatus == {"pending", "uploading", "reading", "analyzing", "generating",
              "validating", "auditing", "exporting", "completed", "failed"}

\* RunState(run_id=..., **kwargs): the dataclass defaults, then the keyword arguments.
RunState(run_id, kwargs) ==
    LET defaults == [run_id |-> run_id,
                     status |-> "pending",
                     created_at |-> clock,
                     updated_at |-> clock,
                     completed_at |-> None,
                     file_size |-> None,
                     llm_provider |-> "openai",
                     repair_attempts |-> 1,
                     current_node |-> None,
                     progress_percentage |-> 0,
                     raw_text |-> None,
                     chunks |-> <<>>,
                     features_summary |-> None,
                     test_cases |-> <<>>,
                     validation_issues |-> <<>>,
                     coverage_gaps |-> <<>>,
                     artifacts_path |-> None,
                     error_message |-> None,
                     retry_count |-> 0]
    IN [k \in DOMAIN defaults |-> IF k \in DOMAIN kwargs THEN kwargs[k] ELSE defaults[k]]

\* A variant of create_run that initialises every stored run anew.
create_run_all(store, run_id, kwargs) ==
    [r \in DOMAIN store \cup {run_id} |-> RunState(r, kwargs)]

\* RunStore.create_run: the registry after the call (run_id is the fresh uuid4).
create_run(store, run_id, kwargs) ==
    [r \in DOMAIN store \cup {run_id} |->
        IF r = run_id THEN RunState(run_id, kwargs) ELSE store[r]]

\* RunStore.get_run: None for an absent key.
get_run(store, run_id) == IF run_id \in DOMAIN store THEN Some(store[run_id]) ELSE None

\* RunStore.update_run, its return value ...
update_run_result(store, run_id) == run_id \in DOMAIN store

\* A variant of update_run that sets every name of the update, also one the
\* RunState does not have.
update_run_setattr(store, run_id, updates) ==
    IF run_id \notin DOMAIN store THEN store
    ELSE [store EXCEPT ![run_id] =
            [k \in DOMAIN @ \cup DOMAIN updates |->
                IF k = "updated_at" THEN clock
                ELSE IF k \in DOMAIN updates THEN updates[k] ELSE @[k]]]

\* A variant of update_run that creates the entry of an absent identifier.
update_run_upsert(store, run_id, updates) ==
    LET held == IF run_id \in DOMAIN store THEN store ELSE create_run(store, run_id, <<>>)
    IN [held EXCEPT ![run_id] =
            [k \in DOMAIN @ |-> IF k = "updated_at" THEN clock
                                ELSE IF k \in DOMAIN updates THEN updates[k] ELSE @[k]]]

\* ... and the registry after it: setattr for the names the RunState has, no more.
update_run(store, run_id, updates) ==
    IF run_id \notin DOMAIN store THEN store
    ELSE [store EXCEPT ![run_id] =
            [k \in DOMAIN @ |-> IF k = "updated_at" THEN clock
                                ELSE IF k \in DOMAIN updates THEN updates[k] ELSE @[k]]]

\* RunStore.list_runs: the values of the dict in insertion order (the order of
\* the identifiers), sorted by created_at with reverse=True (a stable sort:
\* runs of equal created_at keep their insertion order), then sliced [:limit],
\* which for a negative limit drops the last -limit entries.
list_runs(store, limit) ==
    LET n == Cardinality(DOMAIN store)
        Before(a, b) == \/ store[a].created_at > store[b].created_at
                        \/ store[a].created_at = store[b].created_at /\ a < b
        sorted == CHOOSE seq \in [1..n -> DOMAIN store] :
                      \A i, j \in 1..n : i < j => Before(seq[i], seq[j])
        kept == IF limit >= 0 THEN (IF limit < n THEN limit ELSE n)
                ELSE (IF n + limit > 0 THEN n + limit ELSE 0)
    IN [i \in 1..kept |-> store[sorted[i]]]

\* RunStore.delete_run, its return value ...
delete_run_result(store, run_id) == run_id \in DOMAIN store

\* A variant of delete_run that empties the registry.
delete_run_clear(store, run_id) == [r \in {} |-> store[r]]

\* ... and the registry after it.
delete_run(store, run_id) == [r \in DOMAIN store \ {run_id} |-> store[r]]

(***************************************************************************)
(* app/services/llm_client.py                                              *)
(***************************************************************************)
lower(provider) == IF provider = "OpenAI" THEN "openai" ELSE provider

\* LLMClientFactory.create_client: None when a client is returned, else the
\* ValueError's text.
create_client(provider) ==
    IF lower(provider) = "openai" THEN None ELSE Some("Unsupported LLM provider")

\* OpenAIClient.generate_completion re-raises every provider fault as RuntimeError.
LLMError == "OpenAI API error"

(***************************************************************************)
(* app/services/simple_workflow.py: the functions of the pipeline          *)
(***************************************************************************)
\* A variant of FeatureSection that numbers the chunks from zero.
FeatureSectionZeroBased(i, response) == [chunk |-> i - 1, analysis |-> response]

\* _analyze_features: "--- Chunk {i+1} Analysis ---\n{response}" per chunk, joined
\* with blank lines; the text is kept as its list of (index, response) sections.
FeatureSection(i, response) == [chunk |-> i, analysis |-> response]

\* _generate_test_cases, lines 137-144: json.loads, the single-value wrap, and the
\* raw-text sentinel when the text is no JSON.
ParseTestCases(response) ==
    IF ~response.json THEN <<JObj([raw_response |-> response.text])>>
    ELSE IF response.value.kind = "array" THEN response.value.items
    ELSE <<response.value>>

\* _validate_test_cases, line 152 and the subscript of line 162:
\* "repair" when the list is the sentinel, "validate" when it is not, "TypeError"
\* when `in` or the subscript raises on a value that is no mapping.
SentinelCheck(test_cases) ==
    IF Len(test_cases) /= 1 THEN "validate"
    ELSE LET first == test_cases[1] IN
         CASE first.kind = "object" ->
                IF "raw_response" \in DOMAIN first.fields THEN "repair" ELSE "validate"
           [] first.kind = "string" ->
                IF contains(first.text, RawResponseKey) THEN "TypeError" ELSE "validate"
           [] first.kind = "array" ->
                IF \E k \in 1..Len(first.items) : first.items[k] = JStr(RawResponseKey)
                THEN "TypeError" ELSE "validate"
           [] OTHER -> "TypeError"

RepairedIssue == [index |-> 0, text |-> "JSON was repaired by validator", errors |-> {}]
RepairFailedIssue == [index |-> 0, text |-> "Failed to repair JSON - invalid format", errors |-> {}]

\* f"Test case {i+1} validation failed: {str(e)}"
CaseIssue(position, errors) ==
    [index |-> position, text |-> "Test case validation failed", errors |-> errors]

\* A variant of ValidateLoop whose issues count positions from 0.
ValidateLoopZeroBased(test_cases, issues) ==
    LET cases[i \in 0..Len(test_cases)] ==
            IF i = 0 THEN <<>>
            ELSE IF TestCaseAccepts(test_cases[i])
                 THEN Append(cases[i - 1], TestCaseDict(test_cases[i].fields))
                 ELSE cases[i - 1]
        found[i \in 0..Len(test_cases)] ==
            IF i = 0 THEN issues
            ELSE IF TestCaseAccepts(test_cases[i])
                 THEN found[i - 1]
                 ELSE Append(found[i - 1], CaseIssue(i - 1, TestCaseErrors(test_cases[i])))
    IN [validated_cases |-> cases[Len(test_cases)],
        validation_issues |-> found[Len(test_cases)]]

\* _validate_test_cases, lines 180-190: the loop over the candidates.
ValidateLoop(test_cases, issues) ==
    LET cases[i \in 0..Len(test_cases)] ==
            IF i = 0 THEN <<>>
            ELSE IF TestCaseAccepts(test_cases[i])
                 THEN Append(cases[i - 1], TestCaseDict(test_cases[i].fields))
                 ELSE cases[i - 1]
        found[i \in 0..Len(test_cases)] ==
            IF i = 0 THEN issues
            ELSE IF TestCaseAccepts(test_cases[i])
                 THEN found[i - 1]
                 ELSE Append(found[i - 1], CaseIssue(i, TestCaseErrors(test_cases[i])))
    IN [validated_cases |-> cases[Len(test_cases)],
        validation_issues |-> found[Len(test_cases)]]

\* A variant of AfterRepair that validates the sentinel, not the repaired records.
AfterRepairOnSentinel(response) ==
    IF response.json
    THEN ValidateLoop(<<JObj([raw_response |-> "text"])>>, <<RepairedIssue>>)
    ELSE [validated_cases |-> <<>>, validation_issues |-> <<RepairFailedIssue>>]

\* _validate_test_cases, lines 168-178: what follows the repair completion.
AfterRepair(response) ==
    IF response.json
    THEN ValidateLoop(ParseTestCases(response), <<RepairedIssue>>)
    ELSE [validated_cases |-> <<>>, validation_issues |-> <<RepairFailedIssue>>]

ArtifactFiles == <<"testcases.json", "testcases.csv", "traceability.json">>

(***************************************************************************)
(* Coroutines.  An execution is one POST /generate/{run_id} request and    *)
(* the run_workflow call it makes; its fields are the locals of the two    *)
(* functions; generation and repair are the completions it received, and   *)
(* llm_calls, written and last_status record what it did.                  *)
(***************************************************************************)
NoProc == [k |-> "none", i |-> 0]
ExecProc(e) == [k |-> "exec", i |-> e]
IngestProc == [k |-> "ingest", i |-> 0]

NoResult == [http |-> 0, status |-> "", test_case_count |-> 0, error_message |-> None]

IdleExec ==
    [pc |-> "idle", run_id |-> 0, force_restart |-> FALSE,
     chunks |-> <<>>, i |-> 0, all_features |-> <<>>,
     generation |-> None, repair |-> None,
     test_cases |-> <<>>, validated_cases |-> <<>>, validation_issues |-> <<>>,
     fault |-> None, result |-> NoResult,
     llm_calls |-> <<>>, written |-> {}, last_status |-> "none",
     state_error |-> None, coverage_gaps |-> <<>>, additional_test_cases |-> <<>>,
     audit |-> None, gapfill |-> None, highest_id |-> 0, traceability |-> <<>>,
     csv_data |-> <<>>]

\* A variant of Write that is interrupted after the first field of the update.
WriteTorn(e, updates) ==
    runs' = IF "status" \in DOMAIN updates
            THEN update_run(runs, execs[e].run_id, [status |-> updates.status])
            ELSE update_run(runs, execs[e].run_id, updates)

\* A variant of Write that stores the update under the identifier when the
\* registry does not hold it.
WriteUpsert(e, updates) ==
    runs' = IF execs[e].run_id \in DOMAIN runs
            THEN update_run(runs, execs[e].run_id, updates)
            ELSE create_run(runs, execs[e].run_id, <<>>)

\* One registry write of execution e.
Write(e, updates) == runs' = update_run(runs, execs[e].run_id, updates)

\* routes.generate_test_cases, lines 179-195: the checks before the pipeline starts.
GenerateRequest(e, r, force) ==
    /\ running = NoProc
    /\ execs[e].pc = "idle"
    /\ IF r \notin DOMAIN runs
       THEN /\ execs' = [execs EXCEPT ![e] = [IdleExec EXCEPT
                   !.pc = "done", !.run_id = r, !.force_restart = force,
                   !.result = [NoResult EXCEPT !.http = 404, !.status = "Run not found"]]]
       ELSE IF runs[r].status = "completed"
       THEN /\ execs' = [execs EXCEPT ![e] = [IdleExec EXCEPT
                   !.pc = "done", !.run_id = r, !.force_restart = force,
                   !.result = [NoResult EXCEPT !.http = 200, !.status = "completed"]]]
       ELSE IF runs[r].status = "failed" /\ ~force
       THEN /\ execs' = [execs EXCEPT ![e] = [IdleExec EXCEPT
                   !.pc = "done", !.run_id = r, !.force_restart = force,
                   !.result = [NoResult EXCEPT !.http = 400, !.status = "Run failed"]]]
       ELSE /\ execs' = [execs EXCEPT ![e] = [IdleExec EXCEPT
                   !.pc = IF force THEN "restart" ELSE "start",
                   !.run_id = r, !.force_restart = force]]
    /\ running' = ExecProc(e)
    /\ UNCHANGED <<clock, chunker, runs, usedIds, artifacts, bg, ingest>>

\* SimpleTestCaseWorkflow.run_workflow called by any caller, lines 24-26: the
\* lookup, and the ValueError when the registry does not hold the identifier.
RunWorkflow(e, r) ==
    /\ running = NoProc
    /\ execs[e].pc = "idle"
    /\ IF get_run(runs, r) = None
       THEN execs' = [execs EXCEPT ![e] = [IdleExec EXCEPT
                  !.pc = "raised", !.run_id = r, !.fault = Some("Run not found")]]
       ELSE execs' = [execs EXCEPT ![e] = [IdleExec EXCEPT !.pc = "start", !.run_id = r]]
    /\ running' = ExecProc(e)
    /\ UNCHANGED <<clock, chunker, runs, usedIds, artifacts, bg, ingest>>

\* The caller of run_workflow receives the exception.
Raised(e) ==
    /\ running = ExecProc(e)
    /\ execs[e].pc = "raised"
    /\ execs' = [execs EXCEPT ![e] = IdleExec]
    /\ running' = NoProc
    /\ UNCHANGED <<clock, chunker, runs, usedIds, artifacts, bg, ingest>>

\* A variant of ForceRestart that resets the status, the stage and the progress only.
ForceRestartStatusOnly(e) ==
    /\ running = ExecProc(e)
    /\ execs[e].pc = "restart"
    /\ Write(e, [status |-> "pending", current_node |-> None, progress_percentage |-> 0])
    /\ execs' = [execs EXCEPT ![e].pc = "start", ![e].last_status = "pending"]
    /\ UNCHANGED <<clock, chunker, usedIds, artifacts, bg, ingest, running>>

\* routes.generate_test_cases, lines 199-208: the reset of a forced restart.
ForceRestart(e) ==
    /\ running = ExecProc(e)
    /\ execs[e].pc = "restart"
    /\ Write(e, [status |-> "pending", current_node |-> None, progress_percentage |-> 0,
                 test_cases |-> <<>>, validation_issues |-> <<>>, coverage_gaps |-> <<>>,
                 error_message |-> None])
    /\ execs' = [execs EXCEPT ![e].pc = "start", ![e].last_status = "pending"]
    /\ UNCHANGED <<clock, chunker, usedIds, artifacts, bg, ingest, running>>

\* run_workflow, lines 24-36, and _analyze_features up to its first await: the
\* ANALYZING write, the client, and the first chunk's call if there is a chunk.
StartWorkflow(e) ==
    /\ running = ExecProc(e)
    /\ execs[e].pc = "start"
    /\ execs[e].run_id \in DOMAIN runs
    /\ Write(e, [status |-> "analyzing", current_node |-> Some("feature_analyzer"),
                 progress_percentage |-> 25])
    /\ LET run_state == runs[execs[e].run_id]
           refused == create_client(run_state.llm_provider)
       IN IF refused /= None
          THEN /\ execs' = [execs EXCEPT ![e].pc = "except", ![e].fault = refused,
                                         ![e].last_status = "analyzing"]
               /\ UNCHANGED running
          ELSE IF Len(run_state.chunks) = 0
          THEN /\ execs' = [execs EXCEPT ![e].pc = "w_features",
                                         ![e].last_status = "analyzing"]
               /\ UNCHANGED running
          ELSE /\ execs' = [execs EXCEPT ![e].pc = "analyze", ![e].i = 1,
                                         ![e].chunks = run_state.chunks,
                                         ![e].llm_calls = Append(@, "analyze"),
                                         ![e].last_status = "analyzing"]
               /\ running' = NoProc
    /\ UNCHANGED <<clock, chunker, usedIds, artifacts, bg, ingest>>

\* _analyze_features, lines 108-117: a chunk's completion arrives; the next chunk's
\* call is made, or the loop ends.
AnalyzeReturn(e, response) ==
    /\ running = NoProc
    /\ execs[e].pc = "analyze"
    /\ LET features == Append(execs[e].all_features, FeatureSection(execs[e].i, response))
       IN IF execs[e].i < Len(execs[e].chunks)
          THEN /\ execs' = [execs EXCEPT ![e].all_features = features, ![e].i = @ + 1,
                                         ![e].llm_calls = Append(@, "analyze")]
               /\ UNCHANGED running
          ELSE /\ execs' = [execs EXCEPT ![e].all_features = features, ![e].pc = "w_features"]
               /\ running' = ExecProc(e)
    /\ UNCHANGED <<clock, chunker, runs, usedIds, artifacts, bg, ingest>>

\* An awaited generate_completion raises (llm_client.py, lines 52-54).
LLMFault(e) ==
    /\ running = NoProc
    /\ execs[e].pc \in {"analyze", "generate", "repair"}
    /\ execs' = [execs EXCEPT ![e].pc = "except", ![e].fault = Some(LLMError)]
    /\ running' = ExecProc(e)
    /\ UNCHANGED <<clock, chunker, runs, usedIds, artifacts, bg, ingest>>

\* run_workflow, line 37.
WriteFeatures(e) ==
    /\ running = ExecProc(e)
    /\ execs[e].pc = "w_features"
    /\ Write(e, [features_summary |-> Some(execs[e].all_features)])
    /\ execs' = [execs EXCEPT ![e].pc = "w_generating"]
    /\ UNCHANGED <<clock, chunker, usedIds, artifacts, bg, ingest, running>>

\* run_workflow, lines 40-46, and _generate_test_cases up to its await.
WriteGenerating(e) ==
    /\ running = ExecProc(e)
    /\ execs[e].pc = "w_generating"
    /\ Write(e, [status |-> "generating", current_node |-> Some("test_generator"),
                 progress_percentage |-> 50])
    /\ execs' = [execs EXCEPT ![e].pc = "generate", ![e].last_status = "generating",
                              ![e].llm_calls = Append(@, "generate")]
    /\ running' = NoProc
    /\ UNCHANGED <<clock, chunker, usedIds, artifacts, bg, ingest>>

\* _generate_test_cases, lines 134-144: the completion arrives and is parsed.
GenerateReturn(e, response) ==
    /\ running = NoProc
    /\ execs[e].pc = "generate"
    /\ execs' = [execs EXCEPT ![e].pc = "w_validating",
                              ![e].generation = Some(response),
                              ![e].test_cases = ParseTestCases(response)]
    /\ running' = ExecProc(e)
    /\ UNCHANGED <<clock, chunker, runs, usedIds, artifacts, bg, ingest>>

\* A variant of WriteValidating that repairs only while repair_attempts allows it.
WriteValidatingBounded(e) ==
    /\ running = ExecProc(e)
    /\ execs[e].pc = "w_validating"
    /\ Write(e, [status |-> "validating", current_node |-> Some("validator"),
                 progress_percentage |-> 70])
    /\ LET check == SentinelCheck(execs[e].test_cases)
           done == ValidateLoop(execs[e].test_cases, <<>>)
           allowed == \/ execs[e].run_id \notin DOMAIN runs
                      \/ runs[execs[e].run_id].repair_attempts > 0
       IN CASE check = "TypeError" ->
                 /\ execs' = [execs EXCEPT ![e].pc = "except", ![e].fault = Some("TypeError"),
                                           ![e].last_status = "validating"]
                 /\ UNCHANGED running
            [] check = "repair" /\ allowed ->
                 /\ execs' = [execs EXCEPT ![e].pc = "repair", ![e].last_status = "validating",
                                           ![e].llm_calls = Append(@, "repair")]
                 /\ running' = NoProc
            [] OTHER ->
                 /\ execs' = [execs EXCEPT ![e].pc = "w_cases", ![e].last_status = "validating",
                                           ![e].validated_cases = done.validated_cases,
                                           ![e].validation_issues = done.validation_issues]
                 /\ UNCHANGED running
    /\ UNCHANGED <<clock, chunker, usedIds, artifacts, bg, ingest>>

\* run_workflow, lines 49-55, and _validate_test_cases up to its await, or to its
\* end when no repair is needed.
WriteValidating(e) ==
    /\ running = ExecProc(e)
    /\ execs[e].pc = "w_validating"
    /\ Write(e, [status |-> "validating", current_node |-> Some("validator"),
                 progress_percentage |-> 70])
    /\ LET check == SentinelCheck(execs[e].test_cases)
           done == ValidateLoop(execs[e].test_cases, <<>>)
       IN CASE check = "TypeError" ->
                 /\ execs' = [execs EXCEPT ![e].pc = "except", ![e].fault = Some("TypeError"),
                                           ![e].last_status = "validating"]
                 /\ UNCHANGED running
            [] check = "repair" ->
                 /\ execs' = [execs EXCEPT ![e].pc = "repair", ![e].last_status = "validating",
                                           ![e].llm_calls = Append(@, "repair")]
                 /\ running' = NoProc
            [] check = "validate" ->
                 /\ execs' = [execs EXCEPT ![e].pc = "w_cases", ![e].last_status = "validating",
                                           ![e].validated_cases = done.validated_cases,
                                           ![e].validation_issues = done.validation_issues]
                 /\ UNCHANGED running
    /\ UNCHANGED <<clock, chunker, usedIds, artifacts, bg, ingest>>

\* A variant of RepairReturn in which an unparsable repair completion is a fault.
RepairReturnRaises(e, response) ==
    /\ running = NoProc
    /\ execs[e].pc = "repair"
    /\ LET done == AfterRepair(response)
       IN IF response.json
          THEN execs' = [execs EXCEPT ![e].pc = "w_cases",
                                      ![e].repair = Some(response),
                                      ![e].test_cases = ParseTestCases(response),
                                      ![e].validated_cases = done.validated_cases,
                                      ![e].validation_issues = done.validation_issues]
          ELSE execs' = [execs EXCEPT ![e].pc = "except",
                                      ![e].repair = Some(response),
                                      ![e].fault = Some("JSONDecodeError")]
    /\ running' = ExecProc(e)
    /\ UNCHANGED <<clock, chunker, runs, usedIds, artifacts, bg, ingest>>

\* _validate_test_cases, lines 166-190: the repair completion arrives.
RepairReturn(e, response) ==
    /\ running = NoProc
    /\ execs[e].pc = "repair"
    /\ LET done == AfterRepair(response)
       IN execs' = [execs EXCEPT ![e].pc = "w_cases",
                                 ![e].repair = Some(response),
                                 ![e].test_cases = IF response.json THEN ParseTestCases(response) ELSE @,
                                 ![e].validated_cases = done.validated_cases,
                                 ![e].validation_issues = done.validation_issues]
    /\ running' = ExecProc(e)
    /\ UNCHANGED <<clock, chunker, runs, usedIds, artifacts, bg, ingest>>

\* A variant of WriteCases that stores the issues and not the validated list.
WriteCasesIssuesOnly(e) ==
    /\ running = ExecProc(e)
    /\ execs[e].pc = "w_cases"
    /\ Write(e, [validation_issues |-> execs[e].validation_issues])
    /\ execs' = [execs EXCEPT ![e].pc = "w_exporting"]
    /\ UNCHANGED <<clock, chunker, usedIds, artifacts, bg, ingest, running>>

\* run_workflow, lines 56-59.
WriteCases(e) ==
    /\ running = ExecProc(e)
    /\ execs[e].pc = "w_cases"
    /\ Write(e, [test_cases |-> execs[e].validated_cases,
                 validation_issues |-> execs[e].validation_issues])
    /\ execs' = [execs EXCEPT ![e].pc = "w_exporting"]
    /\ UNCHANGED <<clock, chunker, usedIds, artifacts, bg, ingest, running>>

\* A variant of WriteExporting that writes an earlier stage's status.
WriteExportingBackward(e) ==
    /\ running = ExecProc(e)
    /\ execs[e].pc = "w_exporting"
    /\ Write(e, [status |-> "generating", current_node |-> Some("formatter"),
                 progress_percentage |-> 95])
    /\ execs' = [execs EXCEPT ![e].pc = "export", ![e].i = 1, ![e].last_status = "generating"]
    /\ UNCHANGED <<clock, chunker, usedIds, artifacts, bg, ingest, running>>

\* run_workflow, lines 62-66.
WriteExporting(e) ==
    /\ running = ExecProc(e)
    /\ execs[e].pc = "w_exporting"
    /\ Write(e, [status |-> "exporting", current_node |-> Some("formatter"),
                 progress_percentage |-> 95])
    /\ execs' = [execs EXCEPT ![e].pc = "export", ![e].i = 1, ![e].last_status = "exporting"]
    /\ UNCHANGED <<clock, chunker, usedIds, artifacts, bg, ingest, running>>

\* str.join: the elements with the separator between neighbours; the empty
\* string for the empty list.
JoinWith(sep, list) ==
    LET joined[k \in 0..Len(list)] ==
            IF k = 0 THEN <<>>
            ELSE IF k = 1 THEN list[1]
            ELSE joined[k - 1] \o sep \o list[k]
    IN joined[Len(list)]

CellSeparator == <<";", " ">>

\* _export_to_csv, lines 219-231: the flattened rows; a list field becomes one
\* cell, its elements joined with "; ".
export_to_csv(test_cases) ==
    [k \in 1..Len(test_cases) |->
        [id |-> test_cases[k].id,
         title |-> test_cases[k].title,
         requirement_ids |-> JoinWith(CellSeparator, test_cases[k].requirement_ids),
         preconditions |-> JoinWith(CellSeparator, test_cases[k].preconditions),
         steps |-> JoinWith(CellSeparator, test_cases[k].steps),
         expected_result |-> test_cases[k].expected_result,
         priority |-> test_cases[k].priority,
         type |-> test_cases[k].type]]

\* _create_traceability_matrix, lines 245-250: the entry of a test case.
TraceEntry(case) ==
    [test_case_id |-> case.id, title |-> case.title, type |-> case.type,
     priority |-> case.priority]

\* _create_traceability_matrix, lines 243-245: the key is created with an empty
\* list when the dictionary does not hold it, and the entry is appended.
AppendTrace(traceability, req_id, entry) ==
    IF req_id \notin DOMAIN traceability
    THEN traceability @@ (req_id :> <<entry>>)
    ELSE [traceability EXCEPT ![req_id] = Append(@, entry)]

\* _create_traceability_matrix, lines 238-250: the two loops, over the test cases
\* and over the requirement_ids of each; the dictionary is a function from its
\* keys to the lists of entries.
create_traceability_matrix(test_cases) ==
    LET OfCase(traceability, case) ==
            LET req_ids == case.requirement_ids
                added[j \in 0..Len(req_ids)] ==
                    IF j = 0 THEN traceability
                    ELSE AppendTrace(added[j - 1], req_ids[j], TraceEntry(case))
            IN added[Len(req_ids)]
        built[i \in 0..Len(test_cases)] ==
            IF i = 0 THEN <<>> ELSE OfCase(built[i - 1], test_cases[i])
    IN built[Len(test_cases)]

\* A variant of ExportFile that writes every run's files into one directory.
ExportFileShared(e) ==
    /\ running = ExecProc(e)
    /\ execs[e].pc = "export"
    /\ LET file == ArtifactFiles[execs[e].i] IN
       /\ artifacts' = [r \in RunIds |-> artifacts[r] \cup {file}]
       /\ execs' = [execs EXCEPT ![e].written = @ \cup {file},
                                 ![e].i = @ + 1,
                                 ![e].traceability =
                                     IF file = "traceability.json"
                                     THEN create_traceability_matrix(execs[e].validated_cases)
                                     ELSE @,
                                 ![e].csv_data =
                                     IF file = "testcases.csv"
                                     THEN export_to_csv(execs[e].validated_cases)
                                     ELSE @,
                                 ![e].pc = IF execs[e].i = Len(ArtifactFiles)
                                           THEN "w_completed" ELSE "export"]
    /\ UNCHANGED <<clock, chunker, runs, usedIds, bg, ingest, running>>

\* _export_artifacts, lines 197-211: one of the three files is written under
\* artifacts/{run_id}, the second from the rows of _export_to_csv and the third
\* from the index _create_traceability_matrix builds; nothing here awaits.
ExportFile(e) ==
    /\ running = ExecProc(e)
    /\ execs[e].pc = "export"
    /\ LET file == ArtifactFiles[execs[e].i] IN
       /\ artifacts' = [artifacts EXCEPT ![execs[e].run_id] = @ \cup {file}]
       /\ execs' = [execs EXCEPT ![e].written = @ \cup {file},
                                 ![e].i = @ + 1,
                                 ![e].traceability =
                                     IF file = "traceability.json"
                                     THEN create_traceability_matrix(execs[e].validated_cases)
                                     ELSE @,
                                 ![e].csv_data =
                                     IF file = "testcases.csv"
                                     THEN export_to_csv(execs[e].validated_cases)
                                     ELSE @,
                                 ![e].pc = IF execs[e].i = Len(ArtifactFiles)
                                           THEN "w_completed" ELSE "export"]
    /\ UNCHANGED <<clock, chunker, runs, usedIds, bg, ingest, running>>

\* A variant of ExportFault in which the fault is noted and the pipeline goes on.
ExportFaultIgnored(e) ==
    /\ running = ExecProc(e)
    /\ execs[e].pc = "export"
    /\ execs' = [execs EXCEPT ![e].pc = "w_completed", ![e].fault = Some("OSError")]
    /\ UNCHANGED <<clock, chunker, runs, usedIds, artifacts, bg, ingest, running>>

\* _export_artifacts: makedirs, open, json.dump or to_csv raises.
ExportFault(e) ==
    /\ running = ExecProc(e)
    /\ execs[e].pc = "export"
    /\ execs' = [execs EXCEPT ![e].pc = "except", ![e].fault = Some("OSError")]
    /\ UNCHANGED <<clock, chunker, runs, usedIds, artifacts, bg, ingest, running>>

ArtifactsDir(run_id) == <<"artifacts", run_id>>

\* A variant of WriteCompleted that leaves completed_at and the progress as they are.
WriteCompletedStatusOnly(e) ==
    /\ running = ExecProc(e)
    /\ execs[e].pc = "w_completed"
    /\ Write(e, [status |-> "completed", current_node |-> Some("formatter"),
                 artifacts_path |-> Some(ArtifactsDir(execs[e].run_id))])
    /\ execs' = [execs EXCEPT ![e].pc = "done", ![e].last_status = "completed",
                              ![e].result = [http |-> 200, status |-> "completed",
                                             test_case_count |-> Len(execs[e].validated_cases),
                                             error_message |-> None]]
    /\ UNCHANGED <<clock, chunker, usedIds, artifacts, bg, ingest, running>>

\* run_workflow, lines 71-85.
WriteCompleted(e) ==
    /\ running = ExecProc(e)
    /\ execs[e].pc = "w_completed"
    /\ Write(e, [status |-> "completed", current_node |-> Some("formatter"),
                 progress_percentage |-> 100, completed_at |-> Some("utcnow"),
                 test_case_count |-> Len(execs[e].validated_cases),
                 artifacts_path |-> Some(ArtifactsDir(execs[e].run_id))])
    /\ execs' = [execs EXCEPT ![e].pc = "done", ![e].last_status = "completed",
                              ![e].result = [http |-> 200, status |-> "completed",
                                             test_case_count |-> Len(execs[e].validated_cases),
                                             error_message |-> None]]
    /\ UNCHANGED <<clock, chunker, usedIds, artifacts, bg, ingest, running>>

\* A variant of Except that lets the fault go to the caller.
ExceptRaises(e) ==
    /\ running = ExecProc(e)
    /\ execs[e].pc = "except"
    /\ execs' = [execs EXCEPT ![e].pc = "raised"]
    /\ UNCHANGED <<clock, chunker, runs, usedIds, artifacts, bg, ingest, running>>

\* A variant of Except that returns the "failed" result without the FAILED write.
ExceptLeavesStatus(e) ==
    /\ running = ExecProc(e)
    /\ execs[e].pc = "except"
    /\ execs' = [execs EXCEPT ![e].pc = "done", ![e].last_status = "failed",
                              ![e].result = [http |-> 200, status |-> "failed",
                                             test_case_count |-> 0,
                                             error_message |-> execs[e].fault]]
    /\ UNCHANGED <<clock, chunker, runs, usedIds, artifacts, bg, ingest, running>>

\* run_workflow, lines 87-97: the handler of every fault of the try block.
Except(e) ==
    /\ running = ExecProc(e)
    /\ execs[e].pc = "except"
    /\ Write(e, [status |-> "failed", error_message |-> execs[e].fault])
    /\ execs' = [execs EXCEPT ![e].pc = "done", ![e].last_status = "failed",
                              ![e].result = [http |-> 200, status |-> "failed",
                                             test_case_count |-> 0,
                                             error_message |-> execs[e].fault]]
    /\ UNCHANGED <<clock, chunker, usedIds, artifacts, bg, ingest, running>>

\* routes.generate_test_cases, lines 185-195 and 213-217: the handler returns its
\* response (or raises its HTTPException); nothing awaits since the last step.
Respond(e) ==
    /\ running = ExecProc(e)
    /\ execs[e].pc = "done"
    /\ execs' = [execs EXCEPT ![e] = IdleExec]
    /\ running' = NoProc
    /\ UNCHANGED <<clock, chunker, runs, usedIds, artifacts, bg, ingest>>

(***************************************************************************)
(* app/api/routes.py: ingestion, its background task, deletion             *)
(***************************************************************************)
\* ingest_documents, lines 66-73: create_run with a fresh identifier.
IngestCreate(run_id, provider, attempts) ==
    /\ running = NoProc
    /\ ingest = 0
    /\ run_id \in RunIds \ usedIds
    /\ runs' = create_run(runs, run_id, [llm_provider |-> provider, repair_attempts |-> attempts])
    /\ usedIds' = usedIds \cup {run_id}
    /\ ingest' = run_id
    /\ running' = IngestProc
    /\ UNCHANGED <<clock, chunker, artifacts, bg, execs>>

\* ingest_documents, lines 76-88: UPLOADING, and the background task is queued.
IngestUploading ==
    /\ running = IngestProc
    /\ ingest /= 0
    /\ runs' = update_run(runs, ingest, [status |-> "uploading"])
    /\ bg' = [bg EXCEPT ![ingest] = "queued"]
    /\ ingest' = 0
    /\ running' = NoProc
    /\ UNCHANGED <<clock, chunker, usedIds, artifacts, execs>>

\* _process_uploaded_files, lines 97-99: the run was deleted meanwhile.
ProcessAbsent(r) ==
    /\ running = NoProc
    /\ bg[r] = "queued"
    /\ r \notin DOMAIN runs
    /\ bg' = [bg EXCEPT ![r] = "done"]
    /\ UNCHANGED <<clock, chunker, runs, usedIds, artifacts, ingest, execs, running>>

\* _process_uploaded_files, lines 102-116: the files are saved and the read awaits.
ProcessRead(r) ==
    /\ running = NoProc
    /\ bg[r] = "queued"
    /\ r \in DOMAIN runs
    /\ bg' = [bg EXCEPT ![r] = "reading"]
    /\ UNCHANGED <<clock, chunker, runs, usedIds, artifacts, ingest, execs, running>>

\* TextChunker.chunk_text of a stripped, non-empty document yields at least one chunk.
ChunksOf(n) == [k \in 1..n |-> <<"chunk", k>>]

\* _process_uploaded_files, lines 121-139: text and chunks are stored, status PENDING.
ProcessStore(r, n) ==
    /\ running = NoProc
    /\ bg[r] = "reading"
    /\ runs' = update_run(runs, r, [raw_text |-> Some("combined_text"), chunks |-> ChunksOf(n),
                                    file_size |-> Some(n), status |-> "pending"])
    /\ bg' = [bg EXCEPT ![r] = "done"]
    /\ UNCHANGED <<clock, chunker, usedIds, artifacts, ingest, execs, running>>

\* _process_uploaded_files, lines 144-148: saving or reading a file raised.
ProcessFault(r) ==
    /\ running = NoProc
    /\ \/ bg[r] = "reading"
       \/ bg[r] = "queued" /\ r \in DOMAIN runs
    /\ runs' = update_run(runs, r, [status |-> "failed",
                                    error_message |-> Some("File processing failed")])
    /\ bg' = [bg EXCEPT ![r] = "done"]
    /\ UNCHANGED <<clock, chunker, usedIds, artifacts, ingest, execs, running>>

\* routes.delete_run, lines 312-328.
DeleteRun(r) ==
    /\ running = NoProc
    /\ r \in DOMAIN runs
    /\ artifacts' = [artifacts EXCEPT ![r] = {}]
    /\ runs' = delete_run(runs, r)
    /\ UNCHANGED <<clock, chunker, usedIds, bg, ingest, execs, running>>

(***************************************************************************)
(* app/core/config.py and app/services/workflow.py: TestCaseWorkflow, the  *)
(* graph of nodes.  A node catches its own faults into                     *)
(* state["error_message"] and returns, and the graph goes on to the next   *)
(* node; only a fault outside a node reaches run_workflow's except clause. *)
(***************************************************************************)
\* Settings(): the fields the class declares, with their defaults.
Settings ==
    [coverage_auditor_enabled |-> TRUE, allow_multiple_files |-> TRUE,
     max_file_size_mb |-> 10, default_llm_provider |-> "openai",
     chunk_size |-> 8000, chunk_overlap |-> 200,
     max_test_cases |-> 50, repair_attempts |-> 1]

\* TestCaseWorkflow._should_audit_coverage: the branch after the validator.  The
\* attribute is read under the name the method uses; a name the settings object
\* does not have raises AttributeError.
should_audit_coverage(settings, state) ==
    IF "COVERAGE_AUDITOR_ENABLED" \notin DOMAIN settings THEN "AttributeError"
    ELSE IF ~settings["COVERAGE_AUDITOR_ENABLED"] THEN "format"
    ELSE IF state.validation_issues /= <<>> THEN "audit"
    ELSE IF Len(state.test_cases) < 5 THEN "audit"
    ELSE "format"

\* What a node's except clause stores in state["error_message"].
NodeError(node, text) == Some(<<node, text>>)

\* TestCaseWorkflow.run_workflow, lines 490-509: the registry lookup and the
\* initial state; ValueError is raised to the caller for an absent run.
GraphRunWorkflow(e, r) ==
    /\ running = NoProc
    /\ execs[e].pc = "idle"
    /\ IF r \notin DOMAIN runs
       THEN execs' = [execs EXCEPT ![e] = [IdleExec EXCEPT
                  !.pc = "raised", !.run_id = r, !.fault = Some("Run not found")]]
       ELSE execs' = [execs EXCEPT ![e] = [IdleExec EXCEPT
                  !.pc = "g_invoke", !.run_id = r, !.chunks = runs[r].chunks]]
    /\ running' = ExecProc(e)
    /\ UNCHANGED <<clock, chunker, runs, usedIds, artifacts, bg, ingest>>

\* run_workflow, line 512: the compiled graph's ainvoke raises before any node
\* runs (the graph is compiled with a checkpointer and invoked without a config).
GInvokeFault(e) ==
    /\ running = ExecProc(e)
    /\ execs[e].pc = "g_invoke"
    /\ execs' = [execs EXCEPT ![e].pc = "g_except", ![e].fault = Some("ainvoke")]
    /\ UNCHANGED <<clock, chunker, runs, usedIds, artifacts, bg, ingest, running>>

\* _requirement_reader_node.
GReaderNode(e) ==
    /\ running = ExecProc(e)
    /\ execs[e].pc = "g_invoke"
    /\ IF get_run(runs, execs[e].run_id) = None
       THEN /\ execs' = [execs EXCEPT ![e].pc = "g_analyzer",
                                      ![e].state_error = Some("Run not found")]
            /\ UNCHANGED runs
       ELSE /\ Write(e, [status |-> "reading", current_node |-> Some("requirement_reader"),
                         progress_percentage |-> 10])
            /\ execs' = [execs EXCEPT ![e].pc = "g_analyzer", ![e].last_status = "reading",
                                      ![e].chunks = runs[execs[e].run_id].chunks]
    /\ UNCHANGED <<clock, chunker, usedIds, artifacts, bg, ingest, running>>

\* The fault of a node that reads a field of get_run's result, or makes a client,
\* before its first await: None when there is none.
ClientFault(store, run_id) ==
    IF get_run(store, run_id) = None THEN Some("AttributeError")
    ELSE create_client(store[run_id].llm_provider)

\* _feature_analyzer_node up to its first await, or to its end when there is no
\* chunk or no client.
GAnalyzerNode(e) ==
    /\ running = ExecProc(e)
    /\ execs[e].pc = "g_analyzer"
    /\ LET refused == ClientFault(runs, execs[e].run_id)
           status == [status |-> "analyzing", current_node |-> Some("feature_analyzer"),
                      progress_percentage |-> 25]
       IN IF refused /= None
          THEN /\ Write(e, status)
               /\ execs' = [execs EXCEPT ![e].pc = "g_generator",
                                         ![e].last_status = "analyzing",
                                         ![e].state_error = NodeError("Feature analyzer", refused[1])]
               /\ UNCHANGED running
          ELSE IF Len(execs[e].chunks) = 0
          THEN /\ Write(e, status @@ [features_summary |-> Some(<<>>)])
               /\ execs' = [execs EXCEPT ![e].pc = "g_generator",
                                         ![e].last_status = "analyzing"]
               /\ UNCHANGED running
          ELSE /\ Write(e, status)
               /\ execs' = [execs EXCEPT ![e].pc = "g_analyze", ![e].i = 1,
                                         ![e].last_status = "analyzing",
                                         ![e].llm_calls = Append(@, "analyze")]
               /\ running' = NoProc
    /\ UNCHANGED <<clock, chunker, usedIds, artifacts, bg, ingest>>

\* _feature_analyzer_node, lines 129-145: a chunk's completion arrives.
GAnalyzeReturn(e, response) ==
    /\ running = NoProc
    /\ execs[e].pc = "g_analyze"
    /\ LET features == Append(execs[e].all_features, FeatureSection(execs[e].i, response))
       IN IF execs[e].i < Len(execs[e].chunks)
          THEN /\ execs' = [execs EXCEPT ![e].all_features = features, ![e].i = @ + 1,
                                         ![e].llm_calls = Append(@, "analyze")]
               /\ UNCHANGED <<clock, chunker, runs, running>>
          ELSE /\ Write(e, [features_summary |-> Some(features)])
               /\ execs' = [execs EXCEPT ![e].all_features = features, ![e].pc = "g_generator"]
               /\ running' = ExecProc(e)
    /\ UNCHANGED <<clock, chunker, usedIds, artifacts, bg, ingest>>

\* The node that follows the node whose LLM call is awaited at pc.
AfterNode(pc) ==
    CASE pc = "g_analyze" -> "g_generator"
      [] pc = "g_generate" -> "g_validator"
      [] pc = "g_repair" -> "g_branch"
      [] pc = "g_audit" -> "g_hasgaps"
      [] pc = "g_gap" -> "g_formatter"

\* An awaited generate_completion raises inside a node: the node's except clause
\* stores the text and the graph goes on.
GNodeFault(e) ==
    /\ running = NoProc
    /\ execs[e].pc \in {"g_analyze", "g_generate", "g_repair", "g_audit", "g_gap"}
    /\ execs' = [execs EXCEPT ![e].pc = AfterNode(execs[e].pc),
                              ![e].state_error = NodeError(execs[e].pc, LLMError)]
    /\ running' = ExecProc(e)
    /\ UNCHANGED <<clock, chunker, runs, usedIds, artifacts, bg, ingest>>

\* _test_generator_node up to its await.
GGeneratorNode(e) ==
    /\ running = ExecProc(e)
    /\ execs[e].pc = "g_generator"
    /\ Write(e, [status |-> "generating", current_node |-> Some("test_generator"),
                 progress_percentage |-> 50])
    /\ LET refused == ClientFault(runs, execs[e].run_id)
       IN IF refused /= None
          THEN /\ execs' = [execs EXCEPT ![e].pc = "g_validator",
                                         ![e].last_status = "generating",
                                         ![e].state_error = NodeError("Test generator", refused[1])]
               /\ UNCHANGED running
          ELSE /\ execs' = [execs EXCEPT ![e].pc = "g_generate",
                                         ![e].last_status = "generating",
                                         ![e].llm_calls = Append(@, "generate")]
               /\ running' = NoProc
    /\ UNCHANGED <<clock, chunker, usedIds, artifacts, bg, ingest>>

\* _test_generator_node, lines 178-192: the completion arrives and is parsed.
GGenerateReturn(e, response) ==
    /\ running = NoProc
    /\ execs[e].pc = "g_generate"
    /\ execs' = [execs EXCEPT ![e].pc = "g_validator",
                              ![e].generation = Some(response),
                              ![e].test_cases = ParseTestCases(response)]
    /\ running' = ExecProc(e)
    /\ UNCHANGED <<clock, chunker, runs, usedIds, artifacts, bg, ingest>>

\* _validator_node up to its await, or to its end when no repair is needed.
GValidatorNode(e) ==
    /\ running = ExecProc(e)
    /\ execs[e].pc = "g_validator"
    /\ LET check == SentinelCheck(execs[e].test_cases)
           done == ValidateLoop(execs[e].test_cases, <<>>)
           status == [status |-> "validating", current_node |-> Some("validator"),
                      progress_percentage |-> 70]
       IN CASE check = "TypeError" ->
                 /\ Write(e, status)
                 /\ execs' = [execs EXCEPT ![e].pc = "g_branch", ![e].last_status = "validating",
                                           ![e].state_error = NodeError("Validator", "TypeError")]
                 /\ UNCHANGED running
            [] check = "repair" ->
                 /\ Write(e, status)
                 /\ execs' = [execs EXCEPT ![e].pc = "g_repair", ![e].last_status = "validating",
                                           ![e].llm_calls = Append(@, "repair")]
                 /\ running' = NoProc
            [] check = "validate" ->
                 /\ Write(e, status @@ [test_cases |-> done.validated_cases,
                                        validation_issues |-> done.validation_issues])
                 /\ execs' = [execs EXCEPT ![e].pc = "g_branch", ![e].last_status = "validating",
                                           ![e].test_cases = done.validated_cases,
                                           ![e].validation_issues = done.validation_issues]
                 /\ UNCHANGED running
    /\ UNCHANGED <<clock, chunker, usedIds, artifacts, bg, ingest>>

\* _validator_node, lines 230-261: the repair completion arrives.  An unparsable
\* repair leaves the sentinel in the list, and the loop goes over it.
GRepairReturn(e, response) ==
    /\ running = NoProc
    /\ execs[e].pc = "g_repair"
    /\ LET done == IF response.json
                   THEN ValidateLoop(ParseTestCases(response), <<RepairedIssue>>)
                   ELSE ValidateLoop(execs[e].test_cases, <<RepairFailedIssue>>)
       IN /\ Write(e, [test_cases |-> done.validated_cases,
                       validation_issues |-> done.validation_issues])
          /\ execs' = [execs EXCEPT ![e].pc = "g_branch",
                                    ![e].repair = Some(response),
                                    ![e].test_cases = done.validated_cases,
                                    ![e].validation_issues = done.validation_issues]
    /\ running' = ExecProc(e)
    /\ UNCHANGED <<clock, chunker, usedIds, artifacts, bg, ingest>>

\* The conditional edge after the validator: _should_audit_coverage is called
\* by the graph, outside every node's try block.
GShouldAudit(e) ==
    /\ running = ExecProc(e)
    /\ execs[e].pc = "g_branch"
    /\ LET route == should_audit_coverage(Settings, execs[e])
       IN execs' = [execs EXCEPT
              ![e].pc = CASE route = "AttributeError" -> "g_except"
                          [] route = "audit" -> "g_auditor"
                          [] route = "format" -> "g_formatter",
              ![e].fault = IF route = "AttributeError" THEN Some("AttributeError") ELSE @]
    /\ UNCHANGED <<clock, chunker, runs, usedIds, artifacts, bg, ingest, running>>

\* TestCaseWorkflow.run_workflow, lines 523-533: the except clause.
GExcept(e) ==
    /\ running = ExecProc(e)
    /\ execs[e].pc = "g_except"
    /\ Write(e, [status |-> "failed", error_message |-> execs[e].fault])
    /\ execs' = [execs EXCEPT ![e].pc = "g_done", ![e].last_status = "failed",
                              ![e].result = [http |-> 0, status |-> "failed",
                                             test_case_count |-> 0,
                                             error_message |-> execs[e].fault]]
    /\ UNCHANGED <<clock, chunker, usedIds, artifacts, bg, ingest, running>>

\* run_workflow has returned to its caller, or raised.
GReturn(e) ==
    /\ running = ExecProc(e)
    /\ execs[e].pc \in {"g_done", "raised"}
    /\ execs' = [execs EXCEPT ![e] = IdleExec]
    /\ running' = NoProc
    /\ UNCHANGED <<clock, chunker, runs, usedIds, artifacts, bg, ingest>>

\* _coverage_auditor_node up to its await.
GAuditorNode(e) ==
    /\ running = ExecProc(e)
    /\ execs[e].pc = "g_auditor"
    /\ Write(e, [status |-> "auditing", current_node |-> Some("coverage_auditor"),
                 progress_percentage |-> 80])
    /\ LET refused == ClientFault(runs, execs[e].run_id)
       IN IF refused /= None
          THEN /\ execs' = [execs EXCEPT ![e].pc = "g_hasgaps", ![e].last_status = "auditing",
                                         ![e].state_error = NodeError("Coverage auditor", refused[1])]
               /\ UNCHANGED running
          ELSE /\ execs' = [execs EXCEPT ![e].pc = "g_audit", ![e].last_status = "auditing",
                                         ![e].llm_calls = Append(@, "audit")]
               /\ running' = NoProc
    /\ UNCHANGED <<clock, chunker, usedIds, artifacts, bg, ingest>>

\* [line.strip() for line in response.split('\n') if line.strip()], on the lines
\* of the response.
GapLines(lines) ==
    LET kept[i \in 0..Len(lines)] ==
            IF i = 0 THEN <<>>
            ELSE IF strip(lines[i]) /= <<>> THEN Append(kept[i - 1], strip(lines[i]))
                 ELSE kept[i - 1]
    IN kept[Len(lines)]

\* _coverage_auditor_node, lines 308-316: the audit completion arrives.
GAuditReturn(e, response) ==
    /\ running = NoProc
    /\ execs[e].pc = "g_audit"
    /\ Write(e, [coverage_gaps |-> GapLines(response)])
    /\ execs' = [execs EXCEPT ![e].pc = "g_hasgaps", ![e].audit = Some(response),
                              ![e].coverage_gaps = GapLines(response)]
    /\ running' = ExecProc(e)
    /\ UNCHANGED <<clock, chunker, usedIds, artifacts, bg, ingest>>

\* TestCaseWorkflow._has_coverage_gaps.
has_coverage_gaps(state) == IF state.coverage_gaps /= <<>> THEN "generate_gaps" ELSE "format"

\* A variant of GHasGaps that always goes to the gap generator.
GHasGapsAlways(e) ==
    /\ running = ExecProc(e)
    /\ execs[e].pc = "g_hasgaps"
    /\ execs' = [execs EXCEPT ![e].pc = "g_gapgen"]
    /\ UNCHANGED <<clock, chunker, runs, usedIds, artifacts, bg, ingest, running>>

\* The conditional edge after the coverage auditor.
GHasGaps(e) ==
    /\ running = ExecProc(e)
    /\ execs[e].pc = "g_hasgaps"
    /\ execs' = [execs EXCEPT ![e].pc = IF has_coverage_gaps(execs[e]) = "generate_gaps"
                                        THEN "g_gapgen" ELSE "g_formatter"]
    /\ UNCHANGED <<clock, chunker, runs, usedIds, artifacts, bg, ingest, running>>

DigitSeq == <<"0", "1", "2", "3", "4", "5", "6", "7", "8", "9">>

\* int(s) for a string of decimal digits.
RECURSIVE int(_)
int(s) ==
    IF s = <<>> THEN 0
    ELSE 10 * int(SubSeq(s, 1, Len(s) - 1))
         + (CHOOSE n \in 0..9 : DigitSeq[n + 1] = s[Len(s)])

\* re.search(r'TC-(\d+)', s): the number of the leftmost match, None without one.
search_tc_number(s) ==
    LET starts == {k \in 1..Len(s) :
                      /\ k + Len(TCPrefix) <= Len(s)
                      /\ SubSeq(s, k, k + Len(TCPrefix) - 1) = TCPrefix
                      /\ s[k + Len(TCPrefix)] \in Digits}
    IN IF starts = {} THEN None
       ELSE LET k == CHOOSE a \in starts : \A b \in starts : a <= b
                first == k + Len(TCPrefix)
                last == CHOOSE m \in first..Len(s) :
                            /\ \A j \in first..m : s[j] \in Digits
                            /\ m = Len(s) \/ s[m + 1] \notin Digits
            IN Some(int(SubSeq(s, first, last)))

\* _gap_generator_node, lines 347-354: the highest number among the identifiers.
HighestId(existing_cases) ==
    LET highest[i \in 0..Len(existing_cases)] ==
            IF i = 0 THEN 0
            ELSE LET match == search_tc_number(existing_cases[i].id)
                 IN IF match /= None /\ match[1] > highest[i - 1]
                    THEN match[1] ELSE highest[i - 1]
    IN highest[Len(existing_cases)]

\* _gap_generator_node up to its await.
GGapNode(e) ==
    /\ running = ExecProc(e)
    /\ execs[e].pc = "g_gapgen"
    /\ Write(e, [status |-> "generating", current_node |-> Some("gap_generator"),
                 progress_percentage |-> 85])
    /\ LET refused == ClientFault(runs, execs[e].run_id)
       IN IF refused /= None
          THEN /\ execs' = [execs EXCEPT ![e].pc = "g_formatter", ![e].last_status = "generating",
                                         ![e].state_error = NodeError("Gap generator", refused[1])]
               /\ UNCHANGED running
          ELSE /\ execs' = [execs EXCEPT ![e].pc = "g_gap", ![e].last_status = "generating",
                                         ![e].highest_id = HighestId(execs[e].test_cases),
                                         ![e].llm_calls = Append(@, "gap")]
               /\ running' = NoProc
    /\ UNCHANGED <<clock, chunker, usedIds, artifacts, bg, ingest>>

\* A variant of ValidatedAdditional that keeps the rejected candidates too.
ValidatedAdditionalAll(response) ==
    [k \in 1..Len(ParseTestCases(response)) |-> ParseTestCases(response)[k]]

\* _gap_generator_node, lines 367-381: the candidates of a parsable completion that
\* TestCase accepts, in order; the others are skipped.
ValidatedAdditional(response) ==
    LET additional_cases == ParseTestCases(response)
        kept[i \in 0..Len(additional_cases)] ==
            IF i = 0 THEN <<>>
            ELSE IF TestCaseAccepts(additional_cases[i])
                 THEN Append(kept[i - 1], TestCaseDict(additional_cases[i].fields))
                 ELSE kept[i - 1]
    IN kept[Len(additional_cases)]

\* _gap_generator_node, lines 365-395: the gap-fill completion arrives.
GGapReturn(e, response) ==
    /\ running = NoProc
    /\ execs[e].pc = "g_gap"
    /\ IF response.json
       THEN LET all_cases == execs[e].test_cases \o ValidatedAdditional(response)
            IN /\ Write(e, [test_cases |-> all_cases])
               /\ execs' = [execs EXCEPT ![e].pc = "g_formatter",
                                         ![e].gapfill = Some(response),
                                         ![e].additional_test_cases = ValidatedAdditional(response),
                                         ![e].test_cases = all_cases]
       ELSE /\ execs' = [execs EXCEPT ![e].pc = "g_formatter", ![e].gapfill = Some(response)]
            /\ UNCHANGED runs
    /\ running' = ExecProc(e)
    /\ UNCHANGED <<clock, chunker, usedIds, artifacts, bg, ingest>>

\* _formatter_node, lines 405-410.
GFormatterNode(e) ==
    /\ running = ExecProc(e)
    /\ execs[e].pc = "g_formatter"
    /\ Write(e, [status |-> "exporting", current_node |-> Some("formatter"),
                 progress_percentage |-> 95])
    /\ execs' = [execs EXCEPT ![e].pc = "g_export", ![e].i = 1, ![e].last_status = "exporting"]
    /\ UNCHANGED <<clock, chunker, usedIds, artifacts, bg, ingest, running>>

\* What run_workflow returns when ainvoke has returned (lines 514-521).
GraphResult(state) ==
    [http |-> 0, status |-> "completed", test_case_count |-> Len(state.test_cases),
     error_message |-> state.state_error]

\* _formatter_node, lines 412-440: one of the three files is written; after the
\* last one the COMPLETED write, and the graph ends.
GExportFile(e) ==
    /\ running = ExecProc(e)
    /\ execs[e].pc = "g_export"
    /\ LET file == ArtifactFiles[execs[e].i] IN
       /\ artifacts' = [artifacts EXCEPT ![execs[e].run_id] = @ \cup {file}]
       /\ IF execs[e].i < Len(ArtifactFiles)
          THEN /\ execs' = [execs EXCEPT ![e].written = @ \cup {file}, ![e].i = @ + 1]
               /\ UNCHANGED runs
          ELSE /\ Write(e, [status |-> "completed", current_node |-> Some("formatter"),
                            progress_percentage |-> 100, completed_at |-> Some("utcnow"),
                            test_case_count |-> Len(execs[e].test_cases),
                            artifacts_path |-> Some(ArtifactsDir(execs[e].run_id))])
               /\ execs' = [execs EXCEPT ![e].written = @ \cup {file}, ![e].pc = "g_done",
                                         ![e].last_status = "completed",
                                         ![e].result = GraphResult(execs[e])]
    /\ UNCHANGED <<clock, chunker, usedIds, bg, ingest, running>>

\* _formatter_node, lines 442-444: a write raises; the node stores the text, the
\* graph ends, and run_workflow returns "completed".
GExportFault(e) ==
    /\ running = ExecProc(e)
    /\ execs[e].pc = "g_export"
    /\ LET error == NodeError("Formatter", "OSError")
       IN execs' = [execs EXCEPT ![e].pc = "g_done", ![e].state_error = error,
                                 ![e].result = [GraphResult(execs[e]) EXCEPT
                                                   !.error_message = error]]
    /\ UNCHANGED <<clock, chunker, runs, usedIds, artifacts, bg, ingest, running>>

(***************************************************************************)
(* Sample documents of the LLM                                             *)
(***************************************************************************)
TC001 == <<"T", "C", "-", "0", "0", "1">>
TC002 == <<"T", "C", "-", "0", "0", "2">>
TC01X == <<"T", "C", "-", "0", "1", "X">>
TEST001 == <<"T", "E", "S", "T", "-", "0", "0", "1">>
Word == <<"o", "k">>
Blank == <<" ", " ">>

CaseFull == JObj([id |-> TC001, title |-> Word, requirement_ids |-> <<Word>>,
                  preconditions |-> <<Word>>, steps |-> <<Word, Word>>,
                  expected_result |-> Word, priority |-> "High", type |-> "Functional"])
\* tests/test_validation.py: minimum required fields, and an extra field.
CaseMinimal == JObj([id |-> TC002, title |-> Word, steps |-> <<Word>>,
                     expected_result |-> Word, priority |-> "Medium", type |-> "Negative",
                     extra_field |-> Word])
CaseTC01X == JObj([id |-> TC01X, title |-> Word, steps |-> <<Word>>,
                   expected_result |-> Word, priority |-> "Low", type |-> "Edge"])
CaseBadId == JObj([id |-> TEST001, title |-> Word, steps |-> <<Word>>,
                   expected_result |-> Word, priority |-> "High", type |-> "Functional"])
CaseBlankStep == JObj([id |-> TC001, title |-> Word, steps |-> <<Word, Blank>>,
                       expected_result |-> Word, priority |-> "High", type |-> "Functional"])
CaseNoSteps == JObj([id |-> TC001, title |-> Word, steps |-> <<>>,
                     expected_result |-> Word, priority |-> "High", type |-> "Security"])
CaseBadEnum == JObj([id |-> TC001, title |-> <<>>, steps |-> <<Word>>,
                     expected_result |-> <<>>, priority |-> "Urgent", type |-> "Smoke"])
CaseMissing == JObj([id |-> TC001, title |-> Word])
RawObject == JObj([raw_response |-> "payload"])
\* A record that passes validation and carries an undeclared raw_response key.
CaseRawKey == JObj([id |-> TC001, title |-> Word, steps |-> <<Word>>,
                    expected_result |-> Word, priority |-> "High", type |-> "Functional",
                    raw_response |-> "payload"])

SeqsUpTo(S, n) == UNION {[1..k -> S] : k \in 0..n}

\* The completions of the pipeline specification: every array of up to MaxCands
\* sample items, and the values that are no array.
Items == {CaseFull, CaseMinimal, CaseTC01X, CaseBadId, CaseBlankStep, CaseBadEnum, JNum}
Completions ==
    {JsonText(JArr(items)) : items \in SeqsUpTo(Items, MaxCands)}
    \cup {JsonText(JArr(<<CaseMissing, CaseNoSteps>>)), JsonText(JArr(<<CaseRawKey>>)),
          JsonText(CaseFull), JsonText(RawObject), JsonText(JNull), JsonText(JStr(Word)),
          JsonText(JStr(RawResponseKey)), PlainText("text")}

\* The completions of the system specification.
FewCompletions ==
    {JsonText(JArr(<<CaseFull, CaseTC01X, CaseBadId>>)), JsonText(JArr(<<JNum>>)),
     PlainText("text")}

Analyses == {"features"}
Providers == {"openai", "azure"}
RepairAttempts == 0..3

TC003 == <<"T", "C", "-", "0", "0", "3">>
CaseGap3 == JObj([id |-> TC003, title |-> Word, steps |-> <<Word>>,
                  expected_result |-> Word, priority |-> "Low", type |-> "Security"])

\* Audit completions as their lines; generate_completion strips the completion,
\* so the first line has no leading and the last no trailing whitespace.
AuditResponses == {<< <<>> >>, <<Word>>, <<Word, Blank, <<" ", "o", "k">>, Word>>}

GapCompletions ==
    {JsonText(JArr(<<CaseGap3>>)),
     JsonText(JArr(<<CaseFull, CaseBadId, CaseGap3>>)),
     JsonText(JArr(<<JNull, CaseMinimal>>)),
     JsonText(CaseTC01X), JsonText(JArr(<<>>)), JsonText(JNull), PlainText("text")}

\* Validated lists the validator node can leave in the state.
ValidatedLists ==
    {<<>>,
     <<TestCaseDict(CaseFull.fields)>>,
     <<TestCaseDict(CaseFull.fields), TestCaseDict(CaseMinimal.fields)>>,
     <<TestCaseDict(CaseMinimal.fields), TestCaseDict(CaseTC01X.fields)>>}

(***************************************************************************)
(* The system: requests, background tasks and pipelines, interleaved.      *)
(***************************************************************************)
Init ==
    /\ clock = 0
    /\ chunker = IdleChunker
    /\ runs = <<>>
    /\ usedIds = {}
    /\ artifacts = [r \in RunIds |-> {}]
    /\ bg = [r \in RunIds |-> "none"]
    /\ ingest = 0
    /\ execs = [e \in Execs |-> IdleExec]
    /\ running = NoProc

\* The steps of execution e that take no input.
Stage(e) ==
    \/ ForceRestart(e)
    \/ StartWorkflow(e)
    \/ LLMFault(e)
    \/ WriteFeatures(e)
    \/ WriteGenerating(e)
    \/ WriteValidating(e)
    \/ WriteCases(e)
    \/ WriteExporting(e)
    \/ ExportFile(e)
    \/ ExportFault(e)
    \/ WriteCompleted(e)
    \/ Except(e)
    \/ Respond(e)

Next ==
    \/ IngestCreate(1, "openai", 1)
    \/ IngestUploading
    \/ \E r \in RunIds : ProcessAbsent(r)
    \/ \E r \in RunIds : ProcessRead(r)
    \/ \E r \in RunIds, n \in 1..MaxChunks : ProcessStore(r, n)
    \/ \E r \in RunIds : ProcessFault(r)
    \/ \E r \in RunIds : DeleteRun(r)
    \/ \E e \in Execs, r \in RunIds, force \in BOOLEAN : GenerateRequest(e, r, force)
    \/ \E e \in Execs, response \in Analyses : AnalyzeReturn(e, response)
    \/ \E e \in Execs, response \in FewCompletions : GenerateReturn(e, response)
    \/ \E e \in Execs, response \in FewCompletions : RepairReturn(e, response)
    \/ \E e \in Execs : Stage(e)

Spec == Init /\ [][Next]_vars

(***************************************************************************)
(* One pipeline at a time on a run whose ingestion has finished, over      *)
(* every completion of Completions.                                        *)
(***************************************************************************)
IngestedRun(run_id, provider, attempts, n) ==
    [RunState(run_id, [llm_provider |-> provider, repair_attempts |-> attempts])
        EXCEPT !.raw_text = Some("combined_text"), !.chunks = ChunksOf(n),
               !.file_size = Some(n)]

InitPipeline ==
    /\ clock = 0
    /\ chunker = IdleChunker
    /\ \E provider \in Providers, attempts \in RepairAttempts, n \in 1..MaxChunks :
          runs = [r \in {1} |-> IngestedRun(1, provider, attempts, n)]
    /\ usedIds = {1}
    /\ artifacts = [r \in RunIds |-> {}]
    /\ bg = [r \in RunIds |-> IF r = 1 THEN "done" ELSE "none"]
    /\ ingest = 0
    /\ execs = [e \in Execs |-> IdleExec]
    /\ running = NoProc

NextPipeline ==
    \/ \E r \in RunIds, force \in BOOLEAN : GenerateRequest(1, r, force)
    \/ \E response \in Analyses : AnalyzeReturn(1, response)
    \/ \E response \in Completions : GenerateReturn(1, response)
    \/ \E response \in Completions : RepairReturn(1, response)
    \/ Stage(1)

SpecPipeline == InitPipeline /\ [][NextPipeline]_vars

(***************************************************************************)
(* SimpleTestCaseWorkflow.run_workflow called directly, on any identifier, *)
(* while runs are deleted.                                                 *)
(***************************************************************************)
NextWorkflow ==
    \/ \E r \in RunIds : RunWorkflow(1, r)
    \/ Raised(1)
    \/ \E r \in RunIds : DeleteRun(r)
    \/ \E response \in Analyses : AnalyzeReturn(1, response)
    \/ \E response \in FewCompletions : GenerateReturn(1, response)
    \/ \E response \in FewCompletions : RepairReturn(1, response)
    \/ StartWorkflow(1)
    \/ LLMFault(1)
    \/ WriteFeatures(1)
    \/ WriteGenerating(1)
    \/ WriteValidating(1)
    \/ WriteCases(1)
    \/ WriteExporting(1)
    \/ ExportFile(1)
    \/ ExportFault(1)
    \/ WriteCompleted(1)
    \/ Except(1)
    \/ Respond(1)

SpecWorkflow == InitPipeline /\ [][NextWorkflow]_vars

\* The steps of execution e after its lookup: the coroutine is scheduled whenever
\* it can run, and every LLM call it awaits returns or raises.
WorkflowStep(e) ==
    \/ Raised(e)
    \/ \E response \in Analyses : AnalyzeReturn(e, response)
    \/ \E response \in FewCompletions : GenerateReturn(e, response)
    \/ \E response \in FewCompletions : RepairReturn(e, response)
    \/ StartWorkflow(e)
    \/ LLMFault(e)
    \/ WriteFeatures(e)
    \/ WriteGenerating(e)
    \/ WriteValidating(e)
    \/ WriteCases(e)
    \/ WriteExporting(e)
    \/ ExportFile(e)
    \/ ExportFault(e)
    \/ WriteCompleted(e)
    \/ Except(e)
    \/ Respond(e)

FairWorkflow == SpecWorkflow /\ WF_vars(WorkflowStep(1))

(***************************************************************************)
(* One pipeline on a one-chunk run whose completion is a list of valid     *)
(* test cases with any requirement_ids over two identifiers, or one valid  *)
(* test case whose requirement_ids are strings of semicolons and blanks.   *)
(***************************************************************************)
DigitOf == <<"1", "2", "3", "4", "5", "6", "7", "8", "9">>
TraceId(k) == <<"T", "C", "-", "0", "0", DigitOf[k]>>
REQ1 == <<"R", "1">>
REQ2 == <<"R", "2">>
ReqIds == {REQ1, REQ2}

TraceCase(k, req_ids) ==
    JObj([id |-> TraceId(k), title |-> Word, requirement_ids |-> req_ids,
          steps |-> <<Word>>, expected_result |-> Word,
          priority |-> IF k = 1 THEN "High" ELSE "Low", type |-> "Functional"])

TraceCompletions ==
    UNION {{JsonText(JArr([k \in 1..n |-> TraceCase(k, req_ids[k])])) :
               req_ids \in [1..n -> SeqsUpTo(ReqIds, MaxReqIds)]} : n \in 0..MaxTraceCases}

\* Elements of a list field: empty, ending in a semicolon, starting with a
\* blank, and one that contains the separator.
CellStrings ==
    {<<>>, <<";">>, <<" ">>, <<"a">>, <<"a", ";">>, <<" ", "a">>, <<";", ";">>,
     <<"a", " ">>, <<"a", ";", " ", "b">>}

CellCompletions ==
    {JsonText(JArr(<<TraceCase(1, req_ids)>>)) : req_ids \in SeqsUpTo(CellStrings, MaxReqIds)}

\* The values a field of a record takes: the first of each is valid, the others
\* violate a constraint of TestCase; index 0 leaves the field out.
FieldVariants ==
    [id |-> <<TC001, TEST001>>,
     title |-> <<Word, <<>> >>,
     steps |-> << <<Word>>, <<>>, <<Word, Blank>> >>,
     expected_result |-> <<Word, <<>> >>,
     priority |-> <<"High", "Urgent">>,
     type |-> <<"Edge", "Smoke">>,
     requirement_ids |-> << <<Word>> >>,
     preconditions |-> << <<Word>> >>,
     extra_field |-> <<Word>>]

RecordOf(choice) ==
    [f \in {g \in DOMAIN choice : choice[g] /= 0} |-> FieldVariants[f][choice[f]]]

\* Every choice for the required fields, with or without the two optional lists
\* and with or without the extra field.
Records ==
    {RecordOf([id |-> i, title |-> t, steps |-> s, expected_result |-> x, priority |-> p,
               type |-> y, requirement_ids |-> r, preconditions |-> r, extra_field |-> z]) :
        i \in 0..2, t \in 0..2, s \in 0..3, x \in 0..2, p \in 0..2, y \in 0..2,
        r \in 0..1, z \in 0..1}

RecordCompletions == {JsonText(JArr(<<JObj(record)>>)) : record \in Records}

InitTrace ==
    /\ clock = 0
    /\ chunker = IdleChunker
    /\ runs = [r \in {1} |-> IngestedRun(1, "openai", 1, 1)]
    /\ usedIds = {1}
    /\ artifacts = [r \in RunIds |-> {}]
    /\ bg = [r \in RunIds |-> IF r = 1 THEN "done" ELSE "none"]
    /\ ingest = 0
    /\ execs = [e \in Execs |-> IdleExec]
    /\ running = NoProc

NextTrace ==
    \/ GenerateRequest(1, 1, FALSE)
    \/ \E response \in Analyses : AnalyzeReturn(1, response)
    \/ \E response \in TraceCompletions \cup CellCompletions : GenerateReturn(1, response)
    \/ StartWorkflow(1)
    \/ LLMFault(1)
    \/ WriteFeatures(1)
    \/ WriteGenerating(1)
    \/ WriteValidating(1)
    \/ WriteCases(1)
    \/ WriteExporting(1)
    \/ ExportFile(1)
    \/ ExportFault(1)
    \/ WriteCompleted(1)
    \/ Except(1)
    \/ Respond(1)

SpecTrace == InitTrace /\ [][NextTrace]_vars

(***************************************************************************)
(* One pipeline on a one-chunk run whose completion is one record with any *)
(* choice of present, valid and invalid fields.                            *)
(***************************************************************************)
NextRecords ==
    \/ GenerateRequest(1, 1, FALSE)
    \/ \E response \in Analyses : AnalyzeReturn(1, response)
    \/ \E response \in RecordCompletions : GenerateReturn(1, response)
    \/ StartWorkflow(1)
    \/ LLMFault(1)
    \/ WriteFeatures(1)
    \/ WriteGenerating(1)
    \/ WriteValidating(1)
    \/ WriteCases(1)
    \/ WriteExporting(1)
    \/ ExportFile(1)
    \/ ExportFault(1)
    \/ WriteCompleted(1)
    \/ Except(1)
    \/ Respond(1)

SpecRecords == InitTrace /\ [][NextRecords]_vars

(***************************************************************************)
(* Two runs side by side: both were created by POST /ingest and their      *)
(* background tasks are queued; each run then has its own ingestion task,  *)
(* its own generate requests and pipeline, and its own DELETE requests.    *)
(***************************************************************************)
UploadingRuns ==
    LET one == create_run(<<>>, 1, [llm_provider |-> "openai", repair_attempts |-> 1])
        two == create_run(one, 2, [llm_provider |-> "openai", repair_attempts |-> 1])
    IN update_run(update_run(two, 1, [status |-> "uploading"]), 2, [status |-> "uploading"])

InitTwoRuns ==
    /\ clock = 0
    /\ chunker = IdleChunker
    /\ runs = UploadingRuns
    /\ usedIds = RunIds
    /\ artifacts = [r \in RunIds |-> {}]
    /\ bg = [r \in RunIds |-> "queued"]
    /\ ingest = 0
    /\ execs = [e \in Execs |-> IdleExec]
    /\ running = NoProc

\* The completions of the two pipelines: a list with one valid case, and text
\* that is no JSON.
TwoRunCompletions == {JsonText(JArr(<<CaseFull>>)), PlainText("text")}

\* Execution e serves the requests on run e.
NextTwoRuns ==
    \/ \E r \in RunIds : ProcessAbsent(r)
    \/ \E r \in RunIds : ProcessRead(r)
    \/ \E r \in RunIds : ProcessStore(r, 1)
    \/ \E r \in RunIds : ProcessFault(r)
    \/ \E r \in RunIds : DeleteRun(r)
    \/ \E e \in Execs, force \in BOOLEAN : GenerateRequest(e, e, force)
    \/ \E e \in Execs, response \in Analyses : AnalyzeReturn(e, response)
    \/ \E e \in Execs, response \in TwoRunCompletions : GenerateReturn(e, response)
    \/ \E e \in Execs, response \in TwoRunCompletions : RepairReturn(e, response)
    \/ \E e \in Execs : Stage(e)

SpecTwoRuns == InitTwoRuns /\ [][NextTwoRuns]_vars

(***************************************************************************)
(* The registry alone: RunStore's methods called in any order, on          *)
(* identifiers it holds and on identifiers it does not hold.               *)
(***************************************************************************)
\* Keyword arguments of update_run: stage writes, the FAILED write, a result
\* write, and a name the RunState does not have.
StoreUpdates ==
    {[status |-> "analyzing", current_node |-> Some("feature_analyzer"),
      progress_percentage |-> 25],
     [status |-> "failed", error_message |-> Some("OpenAI API error")],
     [test_cases |-> <<TestCaseDict(CaseFull.fields)>>, validation_issues |-> <<>>],
     [status |-> "completed", progress_percentage |-> 100, test_case_count |-> 1]}

\* RunStore.create_run with a fresh uuid4; the identifiers are named in the
\* order of their creation.
StoreCreateRun(run_id, provider) ==
    /\ run_id \in RunIds \ usedIds
    /\ run_id = Cardinality(usedIds) + 1
    /\ runs' = create_run(runs, run_id, [llm_provider |-> provider])
    /\ usedIds' = usedIds \cup {run_id}
    /\ UNCHANGED <<clock, chunker, artifacts, bg, ingest, execs, running>>

\* RunStore.update_run on any identifier.
StoreUpdateRun(run_id, updates) ==
    /\ runs' = update_run(runs, run_id, updates)
    /\ UNCHANGED <<clock, chunker, usedIds, artifacts, bg, ingest, execs, running>>

\* RunStore.delete_run on any identifier.
StoreDeleteRun(run_id) ==
    /\ runs' = delete_run(runs, run_id)
    /\ UNCHANGED <<clock, chunker, usedIds, artifacts, bg, ingest, execs, running>>

\* Time passes: the next reading of datetime.utcnow() is later.
Tick ==
    /\ clock < MaxClock
    /\ clock' = clock + 1
    /\ UNCHANGED <<chunker, runs, usedIds, artifacts, bg, ingest, execs, running>>

\* The values of the limit parameter of GET /history (an int, not validated).
Limits == -1..3

NextStore ==
    \/ Tick
    \/ \E run_id \in RunIds, provider \in Providers : StoreCreateRun(run_id, provider)
    \/ \E run_id \in RunIds, updates \in StoreUpdates : StoreUpdateRun(run_id, updates)
    \/ \E run_id \in RunIds : StoreDeleteRun(run_id)

SpecStore == Init /\ [][NextStore]_vars

(***************************************************************************)
(* TestCaseWorkflow.run_workflow called on a run whose ingestion has        *)
(* finished, or on an identifier the registry does not hold.               *)
(***************************************************************************)
GraphCompletions ==
    {JsonText(JArr(<<CaseFull, CaseMinimal, CaseTC01X>>)),
     JsonText(JArr(<<CaseFull, CaseFull, CaseMinimal, CaseMinimal, CaseTC01X>>)),
     JsonText(JArr(<<CaseFull, CaseBadId>>)),
     JsonText(JNull), PlainText("text")}

NextGraph ==
    \/ \E r \in RunIds : GraphRunWorkflow(1, r)
    \/ GInvokeFault(1)
    \/ GReaderNode(1)
    \/ GAnalyzerNode(1)
    \/ \E response \in Analyses : GAnalyzeReturn(1, response)
    \/ GNodeFault(1)
    \/ GGeneratorNode(1)
    \/ \E response \in GraphCompletions : GGenerateReturn(1, response)
    \/ GValidatorNode(1)
    \/ \E response \in GraphCompletions : GRepairReturn(1, response)
    \/ GShouldAudit(1)
    \/ GExcept(1)
    \/ GReturn(1)

SpecGraph == InitPipeline /\ [][NextGraph]_vars

\* The steps of the graph execution e after its lookup, scheduled whenever they
\* can run.
GraphStep(e) ==
    \/ GInvokeFault(e)
    \/ GReaderNode(e)
    \/ GAnalyzerNode(e)
    \/ \E response \in Analyses : GAnalyzeReturn(e, response)
    \/ GNodeFault(e)
    \/ GGeneratorNode(e)
    \/ \E response \in GraphCompletions : GGenerateReturn(e, response)
    \/ GValidatorNode(e)
    \/ \E response \in GraphCompletions : GRepairReturn(e, response)
    \/ GShouldAudit(e)
    \/ GExcept(e)
    \/ GReturn(e)

FairGraph == SpecGraph /\ WF_vars(GraphStep(1))

(***************************************************************************)
(* The graph from the coverage auditor on: the state the validator node    *)
(* leaves, with the conditional edge to the auditor taken.                 *)
(***************************************************************************)
InitAudit ==
    /\ clock = 0
    /\ chunker = IdleChunker
    /\ \E provider \in Providers, cases \in ValidatedLists,
          issues \in {<<>>, <<CaseIssue(1, FieldErrors(CaseBadId.fields))>>} :
          /\ runs = [r \in {1} |->
                        [IngestedRun(1, provider, 1, 1) EXCEPT
                            !.status = "validating", !.current_node = Some("validator"),
                            !.progress_percentage = 70, !.features_summary = Some("features"),
                            !.test_cases = cases, !.validation_issues = issues]]
          /\ execs = [e \in Execs |->
                        IF e = 1
                        THEN [IdleExec EXCEPT !.pc = "g_auditor", !.run_id = 1,
                                              !.chunks = ChunksOf(1), !.test_cases = cases,
                                              !.validated_cases = cases,
                                              !.validation_issues = issues,
                                              !.last_status = "validating"]
                        ELSE IdleExec]
    /\ usedIds = {1}
    /\ artifacts = [r \in RunIds |-> {}]
    /\ bg = [r \in RunIds |-> IF r = 1 THEN "done" ELSE "none"]
    /\ ingest = 0
    /\ running = ExecProc(1)

NextAudit ==
    \/ GAuditorNode(1)
    \/ \E response \in AuditResponses : GAuditReturn(1, response)
    \/ GNodeFault(1)
    \/ GHasGaps(1)
    \/ GGapNode(1)
    \/ \E response \in GapCompletions : GGapReturn(1, response)
    \/ GFormatterNode(1)
    \/ GExportFile(1)
    \/ GExportFault(1)
    \/ GReturn(1)

SpecAudit == InitAudit /\ [][NextAudit]_vars

(***************************************************************************)
(* TextChunker.chunk_text called on any text of up to MaxTextLen           *)
(* characters, with any chunk_size >= 1 and any overlap >= 0; one step per *)
(* iteration of its loop.                                                  *)
(***************************************************************************)
TextChars == {"a", ".", " ", "\n"}
Texts == SeqsUpTo(TextChars, MaxTextLen)

InitChunker ==
    /\ clock = 0
    /\ \E text \in Texts, chunk_size \in 1..MaxChunkSize, overlap \in 0..MaxOverlap :
          chunker = [pc |-> "call", text |-> text, chunk_size |-> chunk_size,
                     overlap |-> overlap, start |-> 0, chunks |-> <<>>]
    /\ runs = <<>>
    /\ usedIds = {}
    /\ artifacts = [r \in RunIds |-> {}]
    /\ bg = [r \in RunIds |-> "none"]
    /\ ingest = 0
    /\ execs = [e \in Execs |-> IdleExec]
    /\ running = NoProc

\* chunk_text, lines 133-137: a text of at most chunk_size characters is returned
\* as the one chunk; a longer text enters the loop at start = 0.
ChunkCall ==
    /\ chunker.pc = "call"
    /\ IF Len(chunker.text) <= chunker.chunk_size
       THEN chunker' = [chunker EXCEPT !.pc = "returned", !.chunks = <<chunker.text>>]
       ELSE chunker' = [chunker EXCEPT !.pc = "loop"]
    /\ UNCHANGED <<clock, runs, usedIds, artifacts, bg, ingest, execs, running>>

\* chunk_text, lines 139-160: one iteration of the loop: the end of the chunk,
\* the stripped chunk, kept when it is not empty, and the next start.
ChunkIterate ==
    /\ chunker.pc = "loop"
    /\ chunker.start < Len(chunker.text)
    /\ LET end == ChunkEnd(chunker.text, chunker.chunk_size, chunker.start)
           chunk == strip(Slice(chunker.text, chunker.start, end))
       IN chunker' = [chunker EXCEPT
              !.chunks = IF chunk /= <<>> THEN Append(@, chunk) ELSE @,
              !.start = Max(chunker.start + 1, end - chunker.overlap)]
    /\ UNCHANGED <<clock, runs, usedIds, artifacts, bg, ingest, execs, running>>

\* chunk_text, lines 139 and 162: the loop ends and the chunks are returned.
ChunkReturn ==
    /\ chunker.pc = "loop"
    /\ chunker.start >= Len(chunker.text)
    /\ chunker' = [chunker EXCEPT !.pc = "returned"]
    /\ UNCHANGED <<clock, runs, usedIds, artifacts, bg, ingest, execs, running>>

NextChunker == ChunkCall \/ ChunkIterate \/ ChunkReturn

\* chunk_text is a plain function: once called it runs to its end.
SpecChunker == InitChunker /\ [][NextChunker]_vars /\ WF_vars(NextChunker)

(***************************************************************************)
(* Properties                                                              *)
(***************************************************************************)
StatusOrder == <<"pending", "uploading", "reading", "analyzing", "generating",
                 "validating", "auditing", "exporting", "completed", "failed">>

\* The place of a status in the order; 0 for an execution that wrote none yet.
Rank(status) ==
    IF status = "none" THEN 0
    ELSE CHOOSE k \in 1..Len(StatusOrder) : StatusOrder[k] = status

RunOf(e) == execs[e].run_id

\* C1: in SimpleTestCaseWorkflow.run_workflow a fault at any stage is followed at
\* once by the FAILED write with the fault's description as error_message and by
\* the "failed" result; the faulted execution makes no further LLM call, writes no
\* artifact, and never sets the run to COMPLETED.
C1_FaultAbortsPipeline ==
    /\ [](\A e \in Execs : execs[e].fault /= None =>
            /\ running = ExecProc(e)
            /\ execs[e].pc \in {"except", "done"}
            /\ execs[e].last_status /= "completed"
            /\ execs[e].pc = "done" =>
                 /\ execs[e].last_status = "failed"
                 /\ execs[e].result.status = "failed"
                 /\ execs[e].result.error_message = execs[e].fault
                 /\ RunOf(e) \in DOMAIN runs =>
                      /\ runs[RunOf(e)].status = "failed"
                      /\ runs[RunOf(e)].error_message = execs[e].fault)
    /\ [][\A e \in Execs : execs[e].fault /= None =>
            /\ artifacts' = artifacts
            /\ \/ /\ execs[e].pc = "except"
                  /\ execs'[e].pc = "done"
                  /\ execs'[e].llm_calls = execs[e].llm_calls
                  /\ execs'[e].written = execs[e].written
               \/ /\ execs[e].pc = "done"
                  /\ execs'[e] = IdleExec
                  /\ runs' = runs]_vars

\* C1's case: an execution that faulted after it had made LLM calls has returned
\* "failed" and left the run FAILED.
C1_Witness ==
    \E e \in Execs :
        /\ execs[e].pc = "done"
        /\ execs[e].fault = Some(LLMError)
        /\ Len(execs[e].llm_calls) >= 2
        /\ RunOf(e) \in DOMAIN runs
        /\ runs[RunOf(e)].status = "failed"

\* C2: in every step, a run that is not FAILED before and not FAILED after the
\* step has a progress_percentage at least as large after it as before.
C2_ProgressNeverDecreases ==
    [][\A r \in DOMAIN runs \cap DOMAIN runs' :
          (runs[r].status /= "failed" /\ runs'[r].status /= "failed")
             => runs'[r].progress_percentage >= runs[r].progress_percentage]_vars

\* C3: for every stored run, completed_at is set if and only if the status is
\* COMPLETED.
C3_CompletedAtIffCompleted ==
    \A r \in DOMAIN runs : (runs[r].completed_at /= None) <=> (runs[r].status = "completed")

\* C4: for every stored run, error_message is set if and only if the status is
\* FAILED.
C4_ErrorMessageIffFailed ==
    \A r \in DOMAIN runs : (runs[r].error_message /= None) <=> (runs[r].status = "failed")

Validated(e) ==
    \/ execs[e].pc \in {"w_cases", "w_exporting", "export", "w_completed"}
    \/ execs[e].pc \in {"except", "done"} /\ execs[e].last_status \in {"exporting", "completed"}

\* The candidates the loop of the validate step went over: none after a repair
\* that failed.
Candidates(e) ==
    IF \E j \in 1..Len(execs[e].validation_issues) :
            execs[e].validation_issues[j] = RepairFailedIssue
    THEN <<>>
    ELSE execs[e].test_cases

PositionIssues(issues) == SelectSeq(issues, LAMBDA x : x.index > 0)

\* C7: the validated list is the subsequence of the candidates that the schema
\* accepts, in order (each as TestCase(...).dict() renders it); the per-position
\* issues name the 1-based positions of the rejected candidates, one each, in
\* order; the two counts add up to the number of candidates.
C7_ValidationPartitions ==
    \A e \in Execs : Validated(e) =>
        LET cand == Candidates(e)
            passing == SelectSeq(cand, TestCaseAccepts)
            valid == execs[e].validated_cases
            issues == PositionIssues(execs[e].validation_issues)
            rejected == {k \in 1..Len(cand) : ~TestCaseAccepts(cand[k])}
        IN /\ Len(valid) = Len(passing)
           /\ \A k \in 1..Len(valid) : valid[k] = TestCaseDict(passing[k].fields)
           /\ {issues[j].index : j \in 1..Len(issues)} = rejected
           /\ Len(issues) = Cardinality(rejected)
           /\ \A j \in 1..Len(issues) : \A l \in 1..Len(issues) :
                 j < l => issues[j].index < issues[l].index
           /\ \A j \in 1..Len(issues) :
                 issues[j].errors = TestCaseErrors(cand[issues[j].index])
           /\ Len(valid) + Len(issues) = Len(cand)

\* C7's case: of two or more candidates some were accepted and some rejected.
C7_Witness ==
    \E e \in Execs :
        /\ Validated(e)
        /\ Len(Candidates(e)) >= 2
        /\ Len(execs[e].validated_cases) >= 1
        /\ Len(PositionIssues(execs[e].validation_issues)) >= 1
        /\ ~TestCaseAccepts(Candidates(e)[1])

BothUnparsable(e) ==
    /\ execs[e].generation /= None
    /\ ~execs[e].generation[1].json
    /\ execs[e].repair /= None
    /\ ~execs[e].repair[1].json

AllIssues(issues) == {issues[j] : j \in 1..Len(issues)}

\* C8: when neither the generation completion nor the repair completion parses
\* as JSON, the validate step raises nothing: the validated list is empty, the
\* issues are "Failed to repair JSON - invalid format", the pipeline goes on to
\* the export, and unless the export itself faults the run ends COMPLETED with
\* a test_case_count of 0 and no test cases.
C8_UnrepairableIsNotFatal ==
    \A e \in Execs : BothUnparsable(e) =>
        /\ execs[e].validated_cases = <<>>
        /\ RepairFailedIssue \in AllIssues(execs[e].validation_issues)
        /\ RepairedIssue \notin AllIssues(execs[e].validation_issues)
        /\ execs[e].pc \in {"w_cases", "w_exporting", "export", "w_completed", "except", "done"}
        /\ execs[e].fault \in {None, Some("OSError")}
        /\ (execs[e].pc = "done" /\ execs[e].fault = None) =>
              /\ execs[e].result.status = "completed"
              /\ execs[e].result.test_case_count = 0
              /\ execs[e].written = {ArtifactFiles[k] : k \in 1..Len(ArtifactFiles)}
              /\ RunOf(e) \in DOMAIN runs =>
                    /\ runs[RunOf(e)].status = "completed"
                    /\ runs[RunOf(e)].test_cases = <<>>
                    /\ RepairFailedIssue \in AllIssues(runs[RunOf(e)].validation_issues)

\* C8's case: both completions were unparsable and the run is COMPLETED.
C8_Witness ==
    \E e \in Execs :
        /\ BothUnparsable(e)
        /\ execs[e].pc = "done"
        /\ execs[e].result.test_case_count = 0
        /\ RunOf(e) \in DOMAIN runs
        /\ runs[RunOf(e)].status = "completed"

Repaired(e) ==
    /\ execs[e].generation /= None
    /\ ~execs[e].generation[1].json
    /\ execs[e].repair /= None
    /\ execs[e].repair[1].json

\* C9: when the generation completion does not parse and the repair completion
\* does, the first issue is "JSON was repaired by validator" and "Failed to repair
\* JSON - invalid format" is absent; the candidates are the repaired array's items,
\* or the one repaired value wrapped in a list, and the validated list is made
\* from them.
C9_RepairedRecordsAreValidated ==
    \A e \in Execs : Repaired(e) =>
        LET value == execs[e].repair[1].value
            repaired == IF value.kind = "array" THEN value.items ELSE <<value>>
            passing == SelectSeq(repaired, TestCaseAccepts)
        IN /\ Len(execs[e].validation_issues) >= 1
           /\ execs[e].validation_issues[1] = RepairedIssue
           /\ RepairFailedIssue \notin AllIssues(execs[e].validation_issues)
           /\ execs[e].test_cases = repaired
           /\ Len(execs[e].validated_cases) = Len(passing)
           /\ \A k \in 1..Len(passing) :
                 execs[e].validated_cases[k] = TestCaseDict(passing[k].fields)
           /\ Len(PositionIssues(execs[e].validation_issues)) = Len(repaired) - Len(passing)

\* C9's case: the repair completion was a single object, and it was validated and
\* stored.
C9_Witness ==
    \E e \in Execs :
        /\ Repaired(e)
        /\ execs[e].repair[1].value = CaseFull
        /\ execs[e].validated_cases = <<TestCaseDict(CaseFull.fields)>>
        /\ RunOf(e) \in DOMAIN runs
        /\ runs[RunOf(e)].test_cases = <<TestCaseDict(CaseFull.fields)>>
        /\ runs[RunOf(e)].validation_issues = <<RepairedIssue>>

RepairCalls(e) == Len(SelectSeq(execs[e].llm_calls, LAMBDA call : call = "repair"))

\* The list _generate_test_cases returned to execution e.
Generated(e) ==
    LET response == execs[e].generation[1] IN
    IF ~response.json THEN <<JObj([raw_response |-> response.text])>>
    ELSE IF response.value.kind = "array" THEN response.value.items
    ELSE <<response.value>>

IsSentinel(test_cases) ==
    /\ Len(test_cases) = 1
    /\ test_cases[1].kind = "object"
    /\ "raw_response" \in DOMAIN test_cases[1].fields

C11_AuditEnteredIffEnabledAndNeeded ==
    [][\A e \in Execs : execs[e].pc = "g_branch" =>
          LET needed == /\ Settings.coverage_auditor_enabled
                        /\ \/ execs[e].validation_issues /= <<>>
                           \/ Len(execs[e].test_cases) < 5
          IN IF needed THEN execs'[e].pc = "g_auditor"
                       ELSE execs'[e].pc = "g_formatter"]_vars

\* A line of an audit completion that is not blank.
NonBlankLine(line) == \E k \in 1..Len(line) : line[k] \notin Whitespace

\* The audit call of execution e returned, and its completion holds a gap.
AuditFoundGap(e) ==
    /\ execs[e].audit /= None
    /\ \E i \in 1..Len(execs[e].audit[1]) : NonBlankLine(execs[e].audit[1][i])

\* Execution e entered the gap generator node.
GapFillEntered(e) ==
    \/ execs[e].pc = "g_gapgen"
    \/ \E k \in 1..Len(execs[e].llm_calls) : execs[e].llm_calls[k] = "gap"

\* C12: the gap-fill stage is entered exactly when the audit ran and its
\* completion holds at least one non-blank line; with no gap (or no audit
\* completion at all) the graph goes from the audit to the export and makes no
\* gap-fill LLM call.
C12_GapFillIffAuditFoundGap ==
    \A e \in Execs :
        /\ GapFillEntered(e) => AuditFoundGap(e)
        /\ (execs[e].pc \in {"g_formatter", "g_export", "g_done"} /\ AuditFoundGap(e))
              => GapFillEntered(e)
        /\ execs[e].audit /= None
              => Len(execs[e].coverage_gaps)
                    = Cardinality({i \in 1..Len(execs[e].audit[1]) :
                                      NonBlankLine(execs[e].audit[1][i])})

\* The audit returned four lines, one of them blank, and the gap-fill call is made.
C12_Witness ==
    /\ execs[1].pc = "g_gap"
    /\ execs[1].audit /= None
    /\ Len(execs[1].audit[1]) = 4
    /\ execs[1].coverage_gaps = <<Word, Word, Word>>

\* The audit returned the empty completion and the export runs with no gap-fill call.
C12_WitnessNoGap ==
    /\ execs[1].pc = "g_export"
    /\ execs[1].audit = Some(<< <<>> >>)
    /\ execs[1].llm_calls = <<"audit">>

\* C13: every record the gap-fill stage appends carries a numeric identifier
\* strictly greater than the highest numeric identifier the list held when the
\* stage was invoked, whatever the gap-fill completion is, so that no appended
\* record repeats an identifier of the list.
C13_GapFillIdsAreNew ==
    \A e \in Execs :
        LET added == execs[e].additional_test_cases
            before == SubSeq(execs[e].test_cases, 1, Len(execs[e].test_cases) - Len(added))
        IN execs[e].gapfill /= None =>
              \A k \in 1..Len(added) :
                  /\ search_tc_number(added[k].id) /= None
                  /\ search_tc_number(added[k].id)[1] > execs[e].highest_id
                  /\ \A j \in 1..Len(before) : before[j].id /= added[k].id

\* The candidates of a gap-fill completion that pass validation, in the order of
\* the completion, as the records validation yields; none for text that is no JSON.
PassingCandidates(response) ==
    IF ~response.json THEN <<>>
    ELSE LET passing == SelectSeq(ParseTestCases(response), TestCaseAccepts)
         IN [k \in 1..Len(passing) |-> TestCaseDict(passing[k].fields)]

\* C14: the gap-fill stage only appends: the list after it is the list before
\* it followed by the candidates that pass validation, in the order of the
\* completion; a failing candidate is dropped and records no issue; a completion
\* that cannot be parsed leaves list and issues as they were; in no case does
\* the stage fail the run.
C14_GapFillOnlyAppends ==
    [][\A e \in Execs :
          (execs[e].pc = "g_gap" /\ execs'[e].gapfill /= None) =>
             LET r == execs[e].run_id
                 passing == PassingCandidates(execs'[e].gapfill[1])
             IN /\ execs'[e].test_cases = execs[e].test_cases \o passing
                /\ runs'[r].test_cases = runs[r].test_cases \o passing
                /\ execs'[e].validation_issues = execs[e].validation_issues
                /\ runs'[r].validation_issues = runs[r].validation_issues
                /\ execs'[e].state_error = execs[e].state_error
                /\ execs'[e].fault = None
                /\ runs'[r].status = runs[r].status
                /\ execs'[e].pc = "g_formatter"]_vars

\* The completion held a record that passes with an identifier already in the
\* list, one that fails, and a new one: two records were appended to two.
C14_Witness ==
    /\ execs[1].pc = "g_formatter"
    /\ execs[1].gapfill = Some(JsonText(JArr(<<CaseFull, CaseBadId, CaseGap3>>)))
    /\ Len(execs[1].additional_test_cases) = 2
    /\ Len(runs[1].test_cases) = 4
    /\ runs[1].validation_issues = <<>>

\* The completion was no JSON: the list is as it was and the export is next.
C14_WitnessUnparsable ==
    /\ execs[1].pc = "g_formatter"
    /\ execs[1].gapfill = Some(PlainText("text"))
    /\ Len(runs[1].test_cases) = 2
    /\ execs[1].state_error = None

\* The generation completion of execution e is a JSON array whose records all
\* pass validation.
AllValidArray(e) ==
    /\ execs[e].generation /= None
    /\ execs[e].generation[1].json
    /\ execs[e].generation[1].value.kind = "array"
    /\ \A k \in 1..Len(execs[e].generation[1].value.items) :
          TestCaseAccepts(execs[e].generation[1].value.items[k])

\* C15: when no LLM call and no artifact write fails and the generation
\* completion is a JSON array of n records that all pass validation, the
\* pipeline ends with the run COMPLETED at progress 100, test_case_count n, no
\* validation issue, no coverage gap and the artifact location set.
C15_AllValidRunCompletes ==
    \A e \in Execs :
        (execs[e].pc = "done" /\ execs[e].fault = None /\ AllValidArray(e)) =>
            LET r == execs[e].run_id
                n == Len(execs[e].generation[1].value.items)
            IN /\ runs[r].status = "completed"
               /\ runs[r].progress_percentage = 100
               /\ execs[e].result.status = "completed"
               /\ execs[e].result.test_case_count = n
               /\ Len(runs[r].test_cases) = n
               /\ runs[r].validation_issues = <<>>
               /\ runs[r].coverage_gaps = <<>>
               /\ runs[r].artifacts_path = Some(ArtifactsDir(r))

\* C16: whenever a pipeline execution ends with the run FAILED, that execution
\* has written none of the three artifacts for the run, also when the fault falls
\* inside the export after the first or second write, and the run's artifact
\* location is not set.
C16_FailedRunWroteNoArtifact ==
    \A e \in Execs :
        (/\ execs[e].pc = "done"
         /\ execs[e].result.status = "failed"
         /\ execs[e].run_id \in DOMAIN runs
         /\ runs[execs[e].run_id].status = "failed") =>
            /\ execs[e].written = {}
            /\ runs[execs[e].run_id].artifacts_path = None

\* C17: no content of a generation or repair completion makes the run FAILED:
\* an execution that ends "failed" does so because an LLM call raised, the LLM
\* client could not be created, or an artifact write raised, never because of
\* what a completion holds.
C17_NoResponseContentFails ==
    \A e \in Execs :
        (execs[e].pc = "done" /\ execs[e].result.status = "failed") =>
            execs[e].fault \in {Some(LLMError), Some("OSError"),
                                Some("Unsupported LLM provider")}

\* C18: run_workflow raises to its caller exactly when the registry does not
\* hold the run identifier at the invocation; once the pipeline has started,
\* every fault (LLM error, artifact I/O error, malformed data) ends in a
\* returned result with status "failed" and an error_message, never in a raise.
C18_RaisesIffAbsentAtInvocation ==
    /\ [][\A e \in Execs :
            /\ (execs[e].pc = "idle" /\ execs'[e].pc /= "idle") =>
                  (execs'[e].pc = "raised" <=> execs'[e].run_id \notin DOMAIN runs)
            /\ (execs[e].pc /= "idle" /\ execs'[e].pc = "raised") =>
                  execs[e].pc = "raised"]_vars
    /\ [](\A e \in Execs :
            /\ execs[e].pc = "raised" => execs[e].fault = Some("Run not found")
            /\ (execs[e].pc = "done" /\ execs[e].fault /= None) =>
                  /\ execs[e].result.status = "failed"
                  /\ execs[e].result.error_message = execs[e].fault)

\* run_workflow was called on a run that had been deleted, and raised.
C18_Witness ==
    /\ execs[1].pc = "raised"
    /\ execs[1].run_id = 1
    /\ 1 \in usedIds \ DOMAIN runs

\* A pipeline whose run was deleted meanwhile hit a fault and returned "failed".
C18_WitnessFailed ==
    /\ execs[1].pc = "done"
    /\ execs[1].run_id \notin DOMAIN runs
    /\ execs[1].result.status = "failed"
    /\ execs[1].result.error_message = Some("TypeError")

\* C19: once a run is deleted while its pipeline executes, every later registry
\* update of that pipeline returns false and changes nothing, the pipeline meets
\* no fault that the missing entry causes, and the entry of a deleted run is
\* never created again.
C19_DeletedRunStaysDeleted ==
    /\ [][\A r \in usedIds : r \notin DOMAIN runs => r \notin DOMAIN runs']_vars
    /\ [][\A e \in Execs :
            (/\ execs[e].pc \notin {"idle", "done"}
             /\ execs[e].run_id \notin DOMAIN runs
             /\ execs'[e] /= execs[e]) =>
                /\ ~update_run_result(runs, execs[e].run_id)
                /\ runs' = runs
                /\ execs'[e].pc /= "idle"
                /\ execs'[e].fault \in {execs[e].fault, Some(LLMError), Some("OSError"),
                                        Some("TypeError")}]_vars

\* A pipeline whose run was deleted on the way wrote its three files and
\* returned "completed".
C19_Witness ==
    \E e \in Execs :
        /\ execs[e].pc = "done"
        /\ execs[e].result.status = "completed"
        /\ execs[e].written = {ArtifactFiles[k] : k \in 1..Len(ArtifactFiles)}
        /\ execs[e].run_id \in usedIds \ DOMAIN runs

\* C20: update_run on an identifier the registry does not hold returns false,
\* creates no entry and leaves every stored run as it was, whatever the keyword
\* arguments are.
C20_UpdateAbsentChangesNothing ==
    \A run_id \in RunIds \ DOMAIN runs, updates \in StoreUpdates :
        /\ ~update_run_result(runs, run_id)
        /\ DOMAIN update_run(runs, run_id, updates) = DOMAIN runs
        /\ \A r \in DOMAIN runs : update_run(runs, run_id, updates)[r] = runs[r]

\* The registry holds an updated run, and another identifier was deleted from it.
C20_Witness ==
    /\ DOMAIN runs = {1}
    /\ runs[1].status = "completed"
    /\ 2 \in usedIds
    /\ 2 \notin DOMAIN update_run(runs, 2, [status |-> "failed"])

\* C21: update_run on a stored run returns true, sets exactly the fields the
\* update names to the given values, sets updated_at to the current time, and
\* leaves every other field of the run and every other run as it was; a name
\* that is no field of the RunState (test_case_count) adds and changes nothing.
C21_UpdateSetsNamedFieldsOnly ==
    \A run_id \in DOMAIN runs, updates \in StoreUpdates :
        LET after == update_run(runs, run_id, updates)
        IN /\ update_run_result(runs, run_id)
           /\ DOMAIN after = DOMAIN runs
           /\ \A r \in DOMAIN runs \ {run_id} : after[r] = runs[r]
           /\ DOMAIN after[run_id] = DOMAIN runs[run_id]
           /\ after[run_id].updated_at = clock
           /\ \A k \in DOMAIN runs[run_id] \ {"updated_at"} :
                 after[run_id][k] = IF k \in DOMAIN updates THEN updates[k]
                                    ELSE runs[run_id][k]

\* Two runs are stored; the first was completed by an update later than its
\* creation (the update named test_case_count too), the second was not touched since.
C21_Witness ==
    /\ DOMAIN runs = {1, 2}
    /\ runs[1].status = "completed"
    /\ runs[1].progress_percentage = 100
    /\ runs[1].updated_at > runs[1].created_at
    /\ runs[2].status = "pending"
    /\ runs[2].updated_at = runs[2].created_at

\* The names each update_run call of the routes and the pipeline passes.
UpdateCalls ==
    {{"status"},
     {"raw_text", "chunks", "file_size", "status"},
     {"status", "error_message"},
     {"status", "current_node", "progress_percentage", "test_cases", "validation_issues",
      "coverage_gaps", "error_message"},
     {"status", "current_node", "progress_percentage"},
     {"features_summary"},
     {"test_cases", "validation_issues"},
     {"status", "current_node", "progress_percentage", "completed_at", "artifacts_path"}}

\* What a stage write stores together with its status.
StageFields(status) ==
    CASE status = "analyzing" -> <<Some("feature_analyzer"), 25>>
      [] status = "generating" -> <<Some("test_generator"), 50>>
      [] status = "validating" -> <<Some("validator"), 70>>
      [] status = "exporting" -> <<Some("formatter"), 95>>
      [] status = "completed" -> <<Some("formatter"), 100>>

\* C22: every registry update is atomic with respect to the concurrent
\* pipelines, the ingestion task and the requests: a stored run never shows the
\* status of a stage write without the stage and progress of that same write,
\* the fields that change in one step of the system are fields of one update
\* call, and the updates of concurrent writers take effect one after the other,
\* the later one deciding each field it names.
C22_UpdatesAreAtomic ==
    /\ [](\A r \in DOMAIN runs :
            /\ runs[r].status \in {"analyzing", "generating", "validating", "exporting",
                                   "completed"} =>
                  <<runs[r].current_node, runs[r].progress_percentage>>
                     = StageFields(runs[r].status)
            /\ runs[r].status = "completed" =>
                  runs[r].completed_at /= None /\ runs[r].artifacts_path /= None)
    /\ [][\A r \in DOMAIN runs \cap DOMAIN runs' :
            LET changed == {k \in DOMAIN runs[r] \ {"updated_at"} : runs'[r][k] /= runs[r][k]}
            IN \E K \in UpdateCalls : changed \subseteq K]_vars

\* Two executions work on one run: the one that wrote VALIDATING awaits its
\* call, and the ANALYZING write of the other replaced status, stage and progress.
C22_Witness ==
    \E r \in DOMAIN runs :
        /\ execs[1].run_id = r /\ execs[2].run_id = r
        /\ execs[1].last_status = "validating"
        /\ execs[2].last_status = "analyzing"
        /\ runs[r].status = "analyzing"
        /\ runs[r].current_node = Some("feature_analyzer")
        /\ runs[r].progress_percentage = 25

\* C23: create_run returns an identifier that was no key of the registry and
\* was never returned before, and stores under it a run with status PENDING,
\* progress 0, no completion time, no error message, no artifact location and
\* empty test-case, issue and gap lists; no run stored before is changed.
C23_CreateStoresFreshPendingRun ==
    [][\A run_id \in DOMAIN runs' \ DOMAIN runs :
          /\ run_id \notin usedIds
          /\ usedIds' = usedIds \cup {run_id}
          /\ DOMAIN runs' = DOMAIN runs \cup {run_id}
          /\ \A r \in DOMAIN runs : runs'[r] = runs[r]
          /\ runs'[run_id].run_id = run_id
          /\ runs'[run_id].status = "pending"
          /\ runs'[run_id].progress_percentage = 0
          /\ runs'[run_id].completed_at = None
          /\ runs'[run_id].error_message = None
          /\ runs'[run_id].artifacts_path = None
          /\ runs'[run_id].test_cases = <<>>
          /\ runs'[run_id].validation_issues = <<>>
          /\ runs'[run_id].coverage_gaps = <<>>
          /\ runs'[run_id].created_at = clock]_vars

\* A second run was created, as PENDING, after the first one had been completed.
C23_Witness ==
    /\ DOMAIN runs = {1, 2}
    /\ runs[1].status = "completed"
    /\ runs[2].status = "pending"
    /\ runs[2].progress_percentage = 0
    /\ runs[2].created_at > runs[1].updated_at

\* C24: delete_run returns true exactly when the registry holds the identifier;
\* afterwards get_run of the identifier returns None and a second delete_run
\* returns false; delete_run of an absent identifier returns false and changes
\* nothing; get_run returns the stored run or None and never fails.
C24_DeleteAndGet ==
    \A run_id \in RunIds :
        LET after == delete_run(runs, run_id)
        IN /\ delete_run_result(runs, run_id) <=> run_id \in DOMAIN runs
           /\ get_run(after, run_id) = None
           /\ ~delete_run_result(after, run_id)
           /\ delete_run(after, run_id) = after
           /\ run_id \notin DOMAIN runs => after = runs
           /\ DOMAIN after = DOMAIN runs \ {run_id}
           /\ \A r \in DOMAIN after : after[r] = runs[r]
           /\ get_run(runs, run_id) = IF run_id \in DOMAIN runs THEN Some(runs[run_id])
                                      ELSE None

\* The first run was deleted and the second, updated meanwhile, is still stored.
C24_Witness ==
    /\ 1 \in usedIds
    /\ DOMAIN runs = {2}
    /\ runs[2].status = "analyzing"
    /\ get_run(runs, 1) = None

\* What list_runs guarantees for a limit that is not negative.
ListRunsNewestFirst(limit) ==
    LET listed == list_runs(runs, limit)
        n == Cardinality(DOMAIN runs)
    IN /\ Len(listed) = IF limit < n THEN limit ELSE n
       /\ \A i \in 1..Len(listed) :
             listed[i].run_id \in DOMAIN runs /\ listed[i] = runs[listed[i].run_id]
       /\ \A i, j \in 1..Len(listed) : i < j =>
             /\ listed[i].run_id /= listed[j].run_id
             /\ listed[i].created_at >= listed[j].created_at
       /\ \A r \in DOMAIN runs :
             (\A i \in 1..Len(listed) : listed[i].run_id /= r) =>
                \A i \in 1..Len(listed) : runs[r].created_at <= listed[i].created_at

\* list_runs with a limit of at least 0 returns the newest min(limit, n) runs.
ListRunsWithNaturalLimit == \A limit \in Limits : limit >= 0 => ListRunsNewestFirst(limit)

\* C25: list_runs(limit) returns the stored runs by creation time, newest first,
\* cut to the first limit entries: min(limit, number of stored runs) runs (none
\* for a limit below 1), no run twice, and every omitted run created no later
\* than every returned one.
C25_ListNewestFirstUpToLimit ==
    \A limit \in Limits :
        IF limit >= 0 THEN ListRunsNewestFirst(limit)
        ELSE list_runs(runs, limit) = <<>>

\* The values a forced restart gives to the fields it resets.
IsReset(run) ==
    /\ run.status = "pending"
    /\ run.current_node = None
    /\ run.progress_percentage = 0
    /\ run.test_cases = <<>>
    /\ run.validation_issues = <<>>
    /\ run.coverage_gaps = <<>>
    /\ run.error_message = None

\* C26: a generate request on a FAILED run without force_restart is rejected,
\* starts no pipeline and changes no field of the run; with force_restart the
\* status, stage, progress, test cases, validation issues, coverage gaps and
\* error message of the run are reset (PENDING, none, 0, empty, empty, empty,
\* none) before the pipeline is invoked, and the pipeline starts at the analyze
\* stage.
C26_FailedRunNeedsForceRestart ==
    /\ [][\A e \in Execs :
            (/\ execs[e].pc = "idle" /\ execs'[e].pc /= "idle"
             /\ execs'[e].run_id \in DOMAIN runs
             /\ runs[execs'[e].run_id].status = "failed") =>
                IF execs'[e].force_restart
                THEN execs'[e].pc = "restart" /\ runs' = runs
                ELSE /\ execs'[e].pc = "done"
                     /\ execs'[e].result.http = 400
                     /\ execs'[e].llm_calls = <<>>
                     /\ runs' = runs]_vars
    /\ [][\A e \in Execs :
            /\ execs[e].pc = "restart" =>
                  /\ execs'[e].pc = "start"
                  /\ execs[e].run_id \in DOMAIN runs' /\ IsReset(runs'[execs[e].run_id])
            /\ (execs[e].pc = "start" /\ execs[e].force_restart) =>
                  /\ IsReset(runs[execs[e].run_id])
                  /\ runs'[execs[e].run_id].status = "analyzing"
                  /\ execs'[e].pc \in {"analyze", "w_features", "except"}
            /\ (execs[e].pc = "done" /\ execs[e].result.http = 400) =>
                  execs'[e].pc = "idle" /\ runs' = runs]_vars

\* A run that failed after its analysis was reset by a forced restart, and the
\* pipeline is about to start again.
C26_Witness ==
    /\ execs[1].pc = "start"
    /\ execs[1].force_restart
    /\ execs[2].pc = "idle"
    /\ bg[1] = "done"
    /\ 1 \in DOMAIN runs
    /\ IsReset(runs[1])
    /\ runs[1].features_summary /= None

\* A generate request without force_restart on a FAILED run was turned away.
C26_WitnessRejected ==
    /\ execs[1].pc = "done"
    /\ execs[1].result.http = 400
    /\ 1 \in DOMAIN runs
    /\ runs[1].status = "failed"
    /\ runs[1].error_message /= None

\* C27: whenever a pipeline execution sets a run to COMPLETED, the
\* test_case_count it reports is the length of its final validated list, and
\* that list is the stored test_cases of the run, so that the count derived from
\* the stored run is the reported one.
C27_ReportedCountIsStoredCount ==
    [][\A e \in Execs :
          (/\ execs[e].run_id \in DOMAIN runs'
           /\ execs'[e].last_status = "completed"
           /\ execs[e].last_status /= "completed") =>
              /\ runs'[execs[e].run_id].status = "completed"
              /\ execs'[e].result.status = "completed"
              /\ execs'[e].result.test_case_count = Len(execs[e].validated_cases)
              /\ runs'[execs[e].run_id].test_cases = execs[e].validated_cases
              /\ Len(runs'[execs[e].run_id].test_cases) = execs'[e].result.test_case_count]_vars

\* An execution completed its run with two validated cases while the other
\* execution on the same run, which holds a different list, awaits a call.
C27_Witness ==
    /\ execs[1].pc = "done"
    /\ execs[1].result.status = "completed"
    /\ execs[1].result.test_case_count = 2
    /\ 1 \in DOMAIN runs
    /\ Len(runs[1].test_cases) = 2
    /\ execs[2].run_id = 1
    /\ execs[2].pc \in {"analyze", "generate", "repair"}

\* The LLM calls of one execution over n chunks, in the order of the code: one
\* analyze call per chunk, one generate call, one repair call.
CallOrder(n) ==
    [k \in 1..(n + 2) |-> IF k <= n THEN "analyze"
                          ELSE IF k = n + 1 THEN "generate" ELSE "repair"]

IsPrefixOf(s, t) == Len(s) <= Len(t) /\ \A k \in 1..Len(s) : s[k] = t[k]

\* The calls an execution made and the sections it collected are in order.
CallsInOrder(e) ==
    /\ IsPrefixOf(execs[e].llm_calls, CallOrder(Len(execs[e].chunks)))
    /\ \A k \in 1..Len(execs[e].all_features) : execs[e].all_features[k].chunk = k
    /\ Len(execs[e].all_features) <= Len(execs[e].chunks)
    /\ execs[e].pc = "analyze" =>
          /\ Len(execs[e].llm_calls) = execs[e].i
          /\ Len(execs[e].all_features) = execs[e].i - 1
          /\ execs[e].i <= Len(execs[e].chunks)
    /\ Len(execs[e].llm_calls) > Len(execs[e].chunks) =>
          Len(execs[e].all_features) = Len(execs[e].chunks)

\* The step issues the generate call of execution e.
IssuesGenerate(e) ==
    /\ Len(execs'[e].llm_calls) = Len(execs[e].llm_calls) + 1
    /\ execs'[e].llm_calls[Len(execs'[e].llm_calls)] = "generate"

\* The step is a status write of execution e with the given status.
WritesStatus(e, status) ==
    /\ execs'[e].last_status = status
    /\ execs[e].last_status /= status

\* C28: within one pipeline execution there is one analyze call per chunk, in
\* chunk order, and the feature summary is the per-chunk outputs in chunk order,
\* each with its 1-based chunk index; then one generate call, issued only after
\* the feature summary and the GENERATING status are in the registry; then at
\* most one repair call; and a stage's status write follows the previous stage's
\* status write and registry writes.  What is said of the registry holds while
\* the run is registered: on a deleted run update_run writes nothing.
C28_StagesAndCallsAreOrdered ==
    /\ [](\A e \in Execs : CallsInOrder(e))
    /\ [][\A e \in Execs :
            LET run_id == execs[e].run_id IN
            /\ IssuesGenerate(e) =>
                  /\ execs'[e].last_status = "generating"
                  /\ run_id \in DOMAIN runs' =>
                        /\ runs'[run_id].features_summary = Some(execs[e].all_features)
                        /\ runs'[run_id].status = "generating"
            /\ WritesStatus(e, "generating") =>
                  /\ execs[e].last_status = "analyzing"
                  /\ run_id \in DOMAIN runs =>
                        runs[run_id].features_summary = Some(execs[e].all_features)
            /\ WritesStatus(e, "validating") =>
                  /\ execs[e].last_status = "generating"
                  /\ execs[e].generation /= None
            /\ WritesStatus(e, "exporting") =>
                  /\ execs[e].last_status = "validating"
                  /\ run_id \in DOMAIN runs =>
                        /\ runs[run_id].test_cases = execs[e].validated_cases
                        /\ runs[run_id].validation_issues = execs[e].validation_issues
            /\ WritesStatus(e, "completed") =>
                  execs[e].last_status = "exporting"]_vars

\* An execution over two chunks made its two analyze calls, its generate call and
\* its repair call, and completed, while the other execution on the run is between
\* its own calls.
C28_Witness ==
    /\ execs[1].pc = "done"
    /\ execs[1].last_status = "completed"
    /\ execs[1].llm_calls = <<"analyze", "analyze", "generate", "repair">>
    /\ Len(execs[1].all_features) = 2
    /\ execs[1].all_features[2].chunk = 2
    /\ execs[2].run_id = execs[1].run_id
    /\ execs[2].pc \in {"analyze", "generate", "repair"}

\* The step belongs to an operation on run a: its ingestion task moves, a DELETE
\* request removes it, or a generate request or pipeline execution on it moves.
OperationOn(a) ==
    \/ bg'[a] /= bg[a]
    \/ a \in DOMAIN runs /\ a \notin DOMAIN runs'
    \/ \E e \in Execs : /\ execs'[e] /= execs[e]
                        /\ a \in {execs[e].run_id, execs'[e].run_id}

\* The step leaves run b as it is: registered or not, every field, and the files
\* under artifacts/{b}.
RunUntouched(b) ==
    /\ (b \in DOMAIN runs') = (b \in DOMAIN runs)
    /\ b \in DOMAIN runs => runs'[b] = runs[b]
    /\ artifacts'[b] = artifacts[b]

\* C29: runs are independent: a step of a pipeline execution, ingestion task or
\* generate/delete request for run A changes no field of a different run B and
\* writes or removes nothing under B's artifact location, under any interleaving
\* of the operations on A and B.
C29_RunsAreIndependent ==
    [][\A a \in RunIds : OperationOn(a) => \A b \in RunIds \ {a} : RunUntouched(b)]_vars

\* Run 1 was completed with its three files while run 2, whose pipeline awaits
\* its generate call, is GENERATING and has no file.
C29_Witness ==
    /\ 1 \in DOMAIN runs /\ 2 \in DOMAIN runs
    /\ runs[1].status = "completed"
    /\ Len(runs[1].test_cases) = 1
    /\ artifacts[1] = {ArtifactFiles[k] : k \in 1..Len(ArtifactFiles)}
    /\ execs[2].run_id = 2
    /\ execs[2].pc = "generate"
    /\ runs[2].status = "generating"
    /\ runs[2].test_cases = <<>>
    /\ artifacts[2] = {}

SeqElems(s) == {s[k] : k \in 1..Len(s)}

\* The positions of a list of entries that hold the entry of the given test case.
EntryPositions(entries, case) == {k \in 1..Len(entries) : entries[k] = TraceEntry(case)}

\* The index of the execution was built: its third file was written.
TraceabilityBuilt(e) == "traceability.json" \in execs[e].written

\* The keys are the requirement identifiers that occur in some test case, the
\* entries under a key follow the order of the test cases, and a test case
\* without requirement_ids has no entry.
KeysAndOrder(cases, traceability) ==
    /\ DOMAIN traceability =
          UNION {SeqElems(cases[i].requirement_ids) : i \in 1..Len(cases)}
    /\ \A req_id \in DOMAIN traceability :
          /\ \A k \in 1..Len(traceability[req_id]) :
                \E i \in 1..Len(cases) :
                    /\ traceability[req_id][k] = TraceEntry(cases[i])
                    /\ req_id \in SeqElems(cases[i].requirement_ids)
          /\ \A i, j \in 1..Len(cases) :
                i < j =>
                   \A k \in EntryPositions(traceability[req_id], cases[i]) :
                      \A l \in EntryPositions(traceability[req_id], cases[j]) : k < l
    /\ \A i \in 1..Len(cases) :
          cases[i].requirement_ids = <<>> =>
             \A req_id \in DOMAIN traceability :
                EntryPositions(traceability[req_id], cases[i]) = {}

\* C30: the traceability index built from a test-case list has as keys exactly
\* the requirement identifiers that occur in some test case's requirement_ids;
\* for every test case and every identifier in its requirement_ids the entry of
\* that test case appears exactly once under that key; the entries under a key
\* follow the order in which the test cases were processed; and a test case with
\* empty requirement_ids contributes to no key.
C30_TraceabilityIndex ==
    \A e \in Execs :
        TraceabilityBuilt(e) =>
           LET cases == execs[e].validated_cases
               traceability == execs[e].traceability
           IN /\ KeysAndOrder(cases, traceability)
              /\ \A i \in 1..Len(cases) :
                    \A req_id \in SeqElems(cases[i].requirement_ids) :
                       Cardinality(EntryPositions(traceability[req_id], cases[i])) = 1

\* What the code does: a test case has as many entries under a key as its
\* requirement_ids name the key, and the rest of the statement holds.
TraceabilityIndexByOccurrence ==
    \A e \in Execs :
        TraceabilityBuilt(e) =>
           LET cases == execs[e].validated_cases
               traceability == execs[e].traceability
           IN /\ KeysAndOrder(cases, traceability)
              /\ \A i \in 1..Len(cases) :
                    \A req_id \in SeqElems(cases[i].requirement_ids) :
                       Cardinality(EntryPositions(traceability[req_id], cases[i])) =
                          Cardinality({k \in 1..Len(cases[i].requirement_ids) :
                                          cases[i].requirement_ids[k] = req_id})

\* The least position at which sep occurs in text, or 0.
FindIn(text, sep) ==
    LET at == {p \in 1..(Len(text) - Len(sep) + 1) : SubSeq(text, p, p + Len(sep) - 1) = sep}
    IN IF at = {} THEN 0 ELSE CHOOSE p \in at : \A q \in at : p <= q

\* Splitting a cell on a separator: the pieces between the occurrences of the
\* separator from left to right; a cell without the separator is one piece.
RECURSIVE SplitOn(_, _)
SplitOn(text, sep) ==
    LET p == FindIn(text, sep)
    IN IF p = 0 THEN <<text>>
       ELSE <<SubSeq(text, 1, p - 1)>> \o SplitOn(SubSeq(text, p + Len(sep), Len(text)), sep)

NoSeparatorIn(list) == \A k \in 1..Len(list) : FindIn(list[k], CellSeparator) = 0

ListFields == {"requirement_ids", "preconditions", "steps"}

\* The rows of the execution were built: its second file was written.
CsvBuilt(e) == "testcases.csv" \in execs[e].written

\* C31: for every list of strings in which no element contains "; ", the empty
\* list and lists with empty or semicolon-ending elements included, joining the
\* list with "; " as the tabular export does and splitting the cell on "; "
\* yields the original list.
C31_JoinSplitRoundTrip ==
    \A e \in Execs :
        CsvBuilt(e) =>
           \A k \in 1..Len(execs[e].validated_cases) : \A field \in ListFields :
              NoSeparatorIn(execs[e].validated_cases[k][field]) =>
                 SplitOn(execs[e].csv_data[k][field], CellSeparator) =
                    execs[e].validated_cases[k][field]

\* What the code does: the round trip holds for every list that is not empty and
\* has no element with the separator; the cell of the empty list is the cell of
\* the list of one empty string.
RoundTripOfNonEmptyLists ==
    \A e \in Execs :
        CsvBuilt(e) =>
           \A k \in 1..Len(execs[e].validated_cases) : \A field \in ListFields :
              LET list == execs[e].validated_cases[k][field]
                  cell == execs[e].csv_data[k][field]
              IN /\ (list /= <<>> /\ NoSeparatorIn(list)) =>
                        SplitOn(cell, CellSeparator) = list
                 /\ list = <<>> => cell = JoinWith(CellSeparator, << <<>> >>)

\* A list with an empty element, a semicolon-ending element and a blank-starting
\* element was exported.
RoundTripWitness ==
    /\ CsvBuilt(1)
    /\ Len(execs[1].validated_cases) = 1
    /\ execs[1].validated_cases[1].requirement_ids = <<<<"a", ";">>, <<" ", "a">>>>
    /\ execs[1].csv_data[1].requirement_ids = <<"a", ";", ";", " ", " ", "a">>

\* The record has every required field and violates no constraint: the TC-
\* prefix, a title and an expected result that are not empty, steps that are not
\* empty with no step blank after trimming, priority and type of the enumerations.
SatisfiesAll(record) ==
    /\ RequiredFields \subseteq DOMAIN record
    /\ startswith(record.id, TCPrefix)
    /\ record.title /= <<>>
    /\ record.steps /= <<>>
    /\ \A k \in 1..Len(record.steps) : strip(record.steps[k]) /= <<>>
    /\ record.expected_result /= <<>>
    /\ record.priority \in Priority
    /\ record.type \in TestCaseType

\* The records of a parsed list that satisfy every constraint, as the validator
\* stores them.
AcceptedOf(test_cases) ==
    LET kept == SelectSeq(test_cases, LAMBDA case : SatisfiesAll(case.fields))
    IN [k \in 1..Len(kept) |-> TestCaseDict(kept[k].fields)]

\* The execution validated the records of its completion and is about to store
\* the result.
RecordsValidated(e) ==
    /\ execs[e].pc = "w_cases"
    /\ execs[e].repair = None
    /\ \A k \in 1..Len(execs[e].test_cases) : execs[e].test_cases[k].kind = "object"

\* C32: the schema validator rejects a record whenever one constraint is
\* violated (identifier without the TC- prefix, empty title, empty steps, a step
\* blank after trimming, empty expected result, priority or type outside its
\* enumeration, a missing required field) and accepts a record that satisfies
\* all of them, with or without requirement_ids and preconditions and with or
\* without unknown extra fields; every rejected record leaves an issue.
C32_ValidatorRejectsAnyViolation ==
    \A e \in Execs :
        RecordsValidated(e) =>
           /\ execs[e].validated_cases = AcceptedOf(execs[e].test_cases)
           /\ Len(execs[e].validation_issues) =
                 Len(execs[e].test_cases) - Len(execs[e].validated_cases)

\* A record with the optional lists and an extra field whose only violation is a
\* step that is blank after trimming was rejected.
C32_Witness ==
    /\ RecordsValidated(1)
    /\ Len(execs[1].test_cases) = 1
    /\ DOMAIN execs[1].test_cases[1].fields =
          RequiredFields \cup {"requirement_ids", "preconditions", "extra_field"}
    /\ Cardinality(FieldErrors(execs[1].test_cases[1].fields)) = 1
    /\ execs[1].test_cases[1].fields.steps = <<Word, Blank>>
    /\ execs[1].validated_cases = <<>>
    /\ Len(execs[1].validation_issues) = 1

\* A record without the optional lists and with an extra field was accepted.
C32_WitnessAccepted ==
    /\ RecordsValidated(1)
    /\ Len(execs[1].test_cases) = 1
    /\ DOMAIN execs[1].test_cases[1].fields = RequiredFields \cup {"extra_field"}
    /\ Len(execs[1].validated_cases) = 1
    /\ execs[1].validated_cases[1].requirement_ids = <<>>

\* The step is the start of the analyze stage of execution e: the ANALYZING write.
StartsAnalyze(e) ==
    /\ execs[e].pc = "start"
    /\ execs'[e].pc /= "start"

\* The pipeline of execution e on run r has started and has not returned.
PipelineStarted(e, r) ==
    /\ execs[e].run_id = r
    /\ execs[e].pc \notin {"idle", "restart", "start", "done", "raised"}

\* The step is a registry write of the ingestion task of run r.
IngestionWrites(r) ==
    /\ bg[r] \in {"queued", "reading"}
    /\ bg'[r] = "done"
    /\ r \in DOMAIN runs

\* C33: whenever a pipeline execution starts its analyze stage for a run, the
\* ingestion task of that run has finished and stored a chunk sequence that is
\* not empty, and no ingestion write to the run (raw text, chunks, status PENDING
\* or FAILED) happens after the pipeline has started.
C33_IngestionPrecedesPipeline ==
    [][/\ \A e \in Execs :
            StartsAnalyze(e) =>
               /\ bg[execs[e].run_id] = "done"
               /\ Len(runs[execs[e].run_id].chunks) > 0
       /\ \A r \in RunIds :
            IngestionWrites(r) => \A e \in Execs : ~PipelineStarted(e, r)]_vars

\* A node of the graph of execution e has faulted and run_workflow has not returned.
NodeFaulted(e) ==
    /\ execs[e].state_error /= None
    /\ execs'[e].pc /= "idle"

\* C34: in the graph-based TestCaseWorkflow a fault raised inside a stage node or
\* while evaluating a branch condition moves the run to FAILED with the fault's
\* description as error_message; no later node runs (no LLM call, no status
\* write other than FAILED), the formatter exports nothing and does not mark the
\* run COMPLETED, and run_workflow reports "failed".
C34_NodeFaultFailsTheRun ==
    [][\A e \in Execs :
          NodeFaulted(e) =>
             /\ execs'[e].llm_calls = execs[e].llm_calls
             /\ execs'[e].written = execs[e].written
             /\ execs'[e].last_status \in {execs[e].last_status, "failed"}
             /\ execs'[e].pc = "g_done" =>
                   /\ execs'[e].result.status = "failed"
                   /\ execs'[e].result.error_message = execs[e].state_error
                   /\ execs[e].run_id \in DOMAIN runs' =>
                         /\ runs'[execs[e].run_id].status = "failed"
                         /\ runs'[execs[e].run_id].error_message = execs[e].state_error]_vars

\* C35: in every reachable state, under any interleaving of requests, ingestion
\* tasks and pipelines, a stored run with status COMPLETED has progress 100, a
\* set completed_at and a set artifact location.
C35_CompletedRunIsFullyMarked ==
    \A r \in DOMAIN runs :
        runs[r].status = "completed" =>
           /\ runs[r].progress_percentage = 100
           /\ runs[r].completed_at /= None
           /\ runs[r].artifacts_path = Some(ArtifactsDir(r))

\* A run is COMPLETED and fully marked while a second execution on it, started
\* before the completion, still awaits an LLM call.
C35_Witness ==
    /\ 1 \in DOMAIN runs
    /\ runs[1].status = "completed"
    /\ runs[1].progress_percentage = 100
    /\ runs[1].completed_at /= None
    /\ runs[1].artifacts_path /= None
    /\ \E e \in Execs : execs[e].run_id = 1 /\ execs[e].pc \in {"analyze", "generate"}

\* The statuses of a run whose pipeline has started and has not finished.
InProgress == {"analyzing", "generating", "validating", "exporting"}

\* The step is a generate request of execution e that goes on to the pipeline.
StartsExecution(e) ==
    /\ execs[e].pc = "idle"
    /\ execs'[e].pc \in {"start", "restart"}

\* C36: at most one pipeline execution is in progress for a run at any time: a
\* generate request for a run whose status is ANALYZING, GENERATING, VALIDATING
\* or EXPORTING starts no second execution, so that two executions of one run are
\* never in progress together.
C36_OnePipelinePerRun ==
    /\ [](\A e1, e2 \in Execs :
             (e1 /= e2 /\ PipelineStarted(e1, execs[e1].run_id)) =>
                ~PipelineStarted(e2, execs[e1].run_id))
    /\ [][\A e \in Execs :
             StartsExecution(e) => runs[execs'[e].run_id].status \notin InProgress]_vars

CompletedFields ==
    {"status", "test_cases", "validation_issues", "progress_percentage", "artifacts_path"}

\* C37: COMPLETED is stable: once a run's status is COMPLETED it stays COMPLETED
\* and its test_cases, validation issues, progress and artifact location stay as
\* they are in every later state until the run is deleted; in particular a
\* generate request on a COMPLETED run, with or without force_restart, starts no
\* pipeline and changes no field.
C37_CompletedIsStable ==
    [][\A r \in DOMAIN runs :
          (runs[r].status = "completed" /\ r \in DOMAIN runs') =>
             /\ \A f \in CompletedFields : runs'[r][f] = runs[r][f]
             /\ \A e \in Execs :
                   (execs[e].pc = "idle" /\ execs'[e].run_id = r) =>
                      /\ execs'[e].pc = "done"
                      /\ runs'[r] = runs[r]]_vars

\* What the code does for the request alone: a generate request on a COMPLETED
\* run, with or without force_restart, starts no pipeline and changes no field.
GenerateOnCompletedIsRefused ==
    [][\A e \in Execs, r \in DOMAIN runs :
          (runs[r].status = "completed" /\ execs[e].pc = "idle" /\ execs'[e].run_id = r) =>
             /\ execs'[e].pc = "done"
             /\ execs'[e].result.status = "completed"
             /\ runs' = runs]_vars

\* No execution is in flight for run r.
NoneInFlight(r) == \A e \in Execs : execs[e].run_id /= r

\* C38: after a delete request for a run has succeeded and every pipeline
\* execution that was in flight for the run has finished, no artifact exists
\* under the run's artifact location: deletion removes the artifacts with the
\* registry entry and no later step re-creates them.
C38_DeletedRunHasNoArtifacts ==
    \A r \in usedIds :
        (r \notin DOMAIN runs /\ NoneInFlight(r)) => artifacts[r] = {}

\* run_workflow of execution e is about to return its result.
Returning(e) == execs[e].pc = "done"

\* C39: if every LLM call and every artifact write returns or raises, every
\* invocation of run_workflow on an existing run returns, and at that moment the
\* run, if it is still in the registry, has the status COMPLETED or FAILED that
\* the returned status names; no execution ends with the run left in ANALYZING,
\* GENERATING, VALIDATING, AUDITING or EXPORTING.
C39_RunWorkflowReturnsWithFinalStatus ==
    /\ [](\A e \in Execs :
             Returning(e) =>
                /\ execs[e].result.status \in {"completed", "failed"}
                /\ execs[e].run_id \in DOMAIN runs =>
                      runs[execs[e].run_id].status = execs[e].result.status)
    /\ \A e \in {1} : (execs[e].pc = "start") ~> Returning(e)

\* The execution returns "failed" after a fault of its repair call, with the run
\* FAILED in the registry.
C39_Witness ==
    /\ Returning(1)
    /\ execs[1].result.status = "failed"
    /\ execs[1].llm_calls = <<"analyze", "generate", "repair">>
    /\ 1 \in DOMAIN runs
    /\ runs[1].status = "failed"
    /\ runs[1].error_message = Some(LLMError)

\* The same for TestCaseWorkflow.run_workflow as it is written: every invocation
\* on an existing run returns, and it returns "failed" with the run FAILED,
\* because the branch after the validator raises in every execution that
\* reaches it.
GraphRunWorkflowReturns ==
    /\ [](\A e \in Execs :
             execs[e].pc = "g_done" =>
                /\ execs[e].result.status = "failed"
                /\ execs[e].run_id \in DOMAIN runs =>
                      runs[execs[e].run_id].status = "failed")
    /\ \A e \in {1} : (execs[e].pc = "g_invoke") ~> (execs[e].pc = "g_done")

\* Every chunk chunk_text returned is not empty and has at most chunk_size
\* characters.
ChunksWithinSize ==
    chunker.pc = "returned" =>
       \A k \in 1..Len(chunker.chunks) :
          /\ chunker.chunks[k] /= <<>>
          /\ Len(chunker.chunks[k]) <= chunker.chunk_size

\* C40: chunk_text terminates for every text and every chunk_size >= 1 and
\* overlap >= 0, overlap >= chunk_size included (the start position strictly
\* increases on every iteration), and every chunk it returns is not empty and
\* at most chunk_size characters long.
C40_ChunkTextTerminatesWithBoundedChunks ==
    /\ <>(chunker.pc = "returned")
    /\ [][chunker.pc = "loop" /\ chunker'.pc = "loop" => chunker'.start > chunker.start]_vars
    /\ []ChunksWithinSize

\* What the code does: chunk_text terminates, the start strictly increases, no
\* chunk is longer than chunk_size, and no chunk is empty unless the text is.
ChunkTextOfNonEmptyText ==
    /\ <>(chunker.pc = "returned")
    /\ [][chunker.pc = "loop" /\ chunker'.pc = "loop" => chunker'.start > chunker.start]_vars
    /\ [](chunker.text /= <<>> => ChunksWithinSize)
    /\ []((chunker.text = <<>> /\ chunker.pc = "returned") => chunker.chunks = << <<>> >>)

\* chunk_text returned two chunks with an overlap that is not smaller than the
\* chunk_size.
ChunkTextWitness ==
    /\ chunker.pc = "returned"
    /\ chunker.overlap >= chunker.chunk_size
    /\ Len(chunker.chunks) >= 2

====
